---- MODULE Spec2Model ----
(***************************************************************************)
(* Place/transition workflow engine (package workflow).                    *)
(*                                                                         *)
(* One Workflow instance bound to one Definition, with the three listener  *)
(* tables (Definition, Manager, Workflow) consulted by fireEvent.  Every   *)
(* public call (Can, Apply, EnabledTransitions, the listener              *)
(* registrations, SetManager) is one action.  Caller supplied code, that   *)
(* is constraints and listeners, is an input of the call: what each        *)
(* callback does when it is invoked is chosen with \E.                     *)
(***************************************************************************)
EXTENDS Integers, Sequences, FiniteSets, TLC

\* The Workflow with its Definition and Manager, and the last call made on it.
VARIABLES definition, marking, defListeners, mgrListeners, listeners, manager, context,
          last

\* The Registry and the goroutines that call it.
VARIABLES workflows, mu, pc, call, ret, todo, role, crashed

workflowVars ==
    <<definition, marking, defListeners, mgrListeners, listeners, manager, context, last>>

registryVars == <<workflows, mu, pc, call, ret, todo, role, crashed>>

\* Workflow.initialPlace, the Storage of the Manager, a second Workflow bound
\* to the same Definition, and the result of the last call of a constructor,
\* of the diagram generator or of the Manager.
VARIABLES initialPlace, storage, other, out, heap

lifecycleVars == <<initialPlace, storage, other, out, heap>>

vars == <<workflowVars, registryVars, lifecycleVars>>

(***************************************************************************)
(* Bounds of the model.                                                    *)
(***************************************************************************)
\* Listeners registered in all, over the three tiers, under SpecDispatch.
MaxListeners == 2
\* Listeners registered in all, over the three tiers, under Spec.
MaxListenersAny == 1

(***************************************************************************)
(* Event types and error values.                                           *)
(***************************************************************************)
EventBeforeTransition == "before_transition"
EventAfterTransition == "after_transition"
EventGuard == "guard"

EventTypes == {EventGuard, EventBeforeTransition, EventAfterTransition}

NoSrc == [ev |-> "", tier |-> "", idx |-> 0]

Nil == [kind |-> "nil", src |-> NoSrc]
ErrTransitionNotAllowed == [kind |-> "ErrTransitionNotAllowed", src |-> NoSrc]
ErrInvalidPlace == [kind |-> "ErrInvalidPlace", src |-> NoSrc]
ErrInvalidTransition == [kind |-> "ErrInvalidTransition", src |-> NoSrc]

\* The opaque error value returned by the callback identified by src.
CallbackErr(src) == [kind |-> "callback", src |-> src]

(***************************************************************************)
(* Sequence helpers.                                                       *)
(***************************************************************************)
Range(s) == {s[i] : i \in DOMAIN s}

HasDuplicates(s) == \E i, j \in DOMAIN s : i < j /\ s[i] = s[j]

(***************************************************************************)
(* Transition and Definition construction.                                 *)
(***************************************************************************)
\* fmt.Errorf: an error value is told apart by its format string and the
\* arguments formatted into it.
Errorf(format, args) == [kind |-> format, src |-> NoSrc, args |-> args]

\* The loop "for _, place := range places" with the set of the places seen
\* so far: the position of the first place that was seen before, 0 when
\* the loop ends.
RECURSIVE FirstRepeated(_, _, _)
FirstRepeated(places, i, seen) ==
    IF i > Len(places) THEN 0
    ELSE IF places[i] \in seen THEN i
         ELSE FirstRepeated(places, i + 1, seen \cup {places[i]})

\* Mutant of NewTransition: the to places are not checked for duplicates.
NewTransition_FromOnly(name, from, to) ==
    IF name = "" THEN Errorf("transition name cannot be empty", <<>>)
    ELSE IF Len(from) = 0
    THEN Errorf("transition must have at least one 'from' place", <<>>)
    ELSE IF Len(to) = 0
    THEN Errorf("transition must have at least one 'to' place", <<>>)
    ELSE IF FirstRepeated(from, 1, {}) # 0
    THEN Errorf("duplicate 'from' place: %s", <<from[FirstRepeated(from, 1, {})]>>)
    ELSE Nil

\* NewTransition: the error the constructor returns, Nil when it returns a
\* transition.
NewTransition(name, from, to) ==
    IF name = "" THEN Errorf("transition name cannot be empty", <<>>)
    ELSE IF Len(from) = 0
    THEN Errorf("transition must have at least one 'from' place", <<>>)
    ELSE IF Len(to) = 0
    THEN Errorf("transition must have at least one 'to' place", <<>>)
    ELSE IF FirstRepeated(from, 1, {}) # 0
    THEN Errorf("duplicate 'from' place: %s", <<from[FirstRepeated(from, 1, {})]>>)
    ELSE IF FirstRepeated(to, 1, {}) # 0
    THEN Errorf("duplicate 'to' place: %s", <<to[FirstRepeated(to, 1, {})]>>)
    ELSE Nil

\* Definition.Place
Place(def, place) == \E i \in DOMAIN def.Places : def.Places[i] = place

\* The loop "for _, place := range trans.From()" (or To()): the position of
\* the first place that is not in validPlaces, 0 when the loop ends.
RECURSIVE FirstInvalid(_, _, _)
FirstInvalid(validPlaces, places, k) ==
    IF k > Len(places) THEN 0
    ELSE IF places[k] \notin validPlaces THEN k
         ELSE FirstInvalid(validPlaces, places, k + 1)

\* Mutant of ValidateTransitions: the to places are checked before the from
\* places.
RECURSIVE ValidateTransitions_ToFirst(_, _, _)
ValidateTransitions_ToFirst(validPlaces, transitions, i) ==
    IF i > Len(transitions) THEN Nil
    ELSE IF FirstInvalid(validPlaces, transitions[i].to, 1) # 0
    THEN Errorf("place '%s' in transition '%s' is not defined in workflow places",
                <<transitions[i].to[FirstInvalid(validPlaces, transitions[i].to, 1)],
                  transitions[i].name>>)
    ELSE IF FirstInvalid(validPlaces, transitions[i].from, 1) # 0
    THEN Errorf("place '%s' in transition '%s' is not defined in workflow places",
                <<transitions[i].from[FirstInvalid(validPlaces, transitions[i].from, 1)],
                  transitions[i].name>>)
    ELSE ValidateTransitions_ToFirst(validPlaces, transitions, i + 1)

\* The loop "for _, trans := range transitions" of NewDefinition, from
\* position i.
RECURSIVE ValidateTransitions(_, _, _)
ValidateTransitions(validPlaces, transitions, i) ==
    IF i > Len(transitions) THEN Nil
    ELSE IF FirstInvalid(validPlaces, transitions[i].from, 1) # 0
    THEN Errorf("place '%s' in transition '%s' is not defined in workflow places",
                <<transitions[i].from[FirstInvalid(validPlaces, transitions[i].from, 1)],
                  transitions[i].name>>)
    ELSE IF FirstInvalid(validPlaces, transitions[i].to, 1) # 0
    THEN Errorf("place '%s' in transition '%s' is not defined in workflow places",
                <<transitions[i].to[FirstInvalid(validPlaces, transitions[i].to, 1)],
                  transitions[i].name>>)
    ELSE ValidateTransitions(validPlaces, transitions, i + 1)

\* NewDefinition: the error the constructor returns, Nil when it returns a
\* definition.  validPlaces is the set of the places.
NewDefinition(places, transitions) == ValidateTransitions(Range(places), transitions, 1)

T(name, from, to, constraints) ==
    [name |-> name, from |-> from, to |-> to, constraints |-> constraints]

\* Constraint.Validate implementations: one that fails on every call and
\* one whose answer depends on state the caller owns.
ConstraintKinds == {"always_fail", "any"}

ForkJoin ==
    [Places |-> <<"start", "a", "b", "end">>,
     Transitions |-> << T("fork", <<"start">>, <<"a", "b">>, <<>>),
                        T("merge", <<"b", "a">>, <<"end">>, <<>>),
                        T("shortcut", <<"a">>, <<"b">>, <<>>) >>]

Constrained ==
    [Places |-> <<"start", "end">>,
     Transitions |-> << T("checked", <<"start">>, <<"end">>, <<"any", "any">>),
                        T("unchecked", <<"start">>, <<"end">>, <<>>),
                        T("never", <<"end">>, <<"start">>, <<"any", "always_fail">>) >>]

Linear ==
    [Places |-> <<"start", "middle", "end">>,
     Transitions |-> << T("to-middle", <<"start">>, <<"middle">>, <<>>),
                        T("to-end", <<"middle">>, <<"end">>, <<>>),
                        T("stay", <<"middle">>, <<"middle">>, <<"always_fail">>) >>]

CandidateDefinitions == {ForkJoin, Constrained, Linear}

WellFormed(def) ==
    /\ \A i \in DOMAIN def.Transitions :
          NewTransition(def.Transitions[i].name, def.Transitions[i].from,
                        def.Transitions[i].to) = Nil
    /\ NewDefinition(def.Places, def.Transitions) = Nil

Definitions == {d \in CandidateDefinitions : WellFormed(d)}

\* A place no Definition declares.
Undeclared == "nowhere"

(***************************************************************************)
(* Marking.                                                                *)
(***************************************************************************)
\* NewMarking: the marking holds a copy of the given places.
NewMarking(places) == places

\* marking.Places: a copy of the current places.
Places(m) == m

\* marking.SetPlaces: the marking holds a copy of the given places.
SetPlaces(m, places) == places

(***************************************************************************)
(* Callbacks.  A listener table entry is the dynamic type of the listener  *)
(* value stored in the []interface{} slice; what the listener does when it *)
(* is invoked is an input of the call.                                     *)
(***************************************************************************)
ListenerTypes == {"EventListener", "GuardEventListener"}

Tiers == {"definition", "manager", "workflow"}

\* What one guard listener does with the event: SetBlocking(true),
\* SetBlocking(false) or no call, and whether it returns an error.
GuardBehaviours == [block : {"none", "true", "false"}, fails : BOOLEAN]

\* What one before/after listener does: whether it returns an error.
EventBehaviours == [block : {"none"}, fails : BOOLEAN]

Behaviours(ev) == IF ev = EventGuard THEN GuardBehaviours ELSE EventBehaviours

\* The type assertion in fireEvent: l.(GuardEventListener) under
\* case EventGuard, l.(EventListener) under default.
Asserts(l, ev) ==
    IF ev = EventGuard THEN l = "GuardEventListener" ELSE l = "EventListener"

\* GuardEvent.SetBlocking
SetBlocking(isBlocking, blocking) == blocking

\* The entry a callback leaves in the call's log.
Entry(ev, tier, idx, b) ==
    [ev |-> ev, tier |-> tier, idx |-> idx, block |-> b.block, fails |-> b.fails]

SrcOf(e) == [ev |-> e.ev, tier |-> e.tier, idx |-> e.idx]

(***************************************************************************)
(* Transition.validate: the constraints in the order they were attached,   *)
(* the first error is returned.  cb[j] says whether constraint j returns   *)
(* an error in this call.                                                  *)
(***************************************************************************)
ConstraintEntry(j, fails) ==
    Entry("constraint", "transition", j, [block |-> "none", fails |-> fails])

ConstraintErr(j) == CallbackErr([ev |-> "constraint", tier |-> "transition", idx |-> j])

\* Mutant of validate: only the first constraint is asked.
validate_FirstOnly(t, cb) ==
    IF Len(t.constraints) = 0 THEN [err |-> Nil, trace |-> <<>>]
    ELSE [err |-> IF cb[1] THEN ConstraintErr(1) ELSE Nil,
          trace |-> <<ConstraintEntry(1, cb[1])>>]

\* Mutant of validate: every constraint is asked and the first error is
\* returned at the end.
RECURSIVE validateAll(_, _, _, _)
validateAll(t, cb, j, r) ==
    IF j > Len(t.constraints) THEN r
    ELSE validateAll(t, cb, j + 1,
            [err |-> IF r.err = Nil /\ cb[j] THEN ConstraintErr(j) ELSE r.err,
             trace |-> Append(r.trace, ConstraintEntry(j, cb[j]))])

validate_AskAll(t, cb) == validateAll(t, cb, 1, [err |-> Nil, trace |-> <<>>])

RECURSIVE validateFrom(_, _, _, _)
validateFrom(t, cb, j, trace) ==
    IF j > Len(t.constraints) THEN [err |-> Nil, trace |-> trace]
    ELSE IF cb[j]
         THEN [err |-> ConstraintErr(j), trace |-> Append(trace, ConstraintEntry(j, TRUE))]
         ELSE validateFrom(t, cb, j + 1, Append(trace, ConstraintEntry(j, FALSE)))

validate(t, cb) == validateFrom(t, cb, 1, <<>>)

\* The answers the constraints of t can give in one call.  A constraint
\* behind the first failing one is not asked; its answer is fixed so that
\* no call is enumerated twice.
ConstraintAnswers(t) ==
    {cb \in [DOMAIN t.constraints -> BOOLEAN] :
        /\ \A j \in DOMAIN t.constraints : t.constraints[j] = "always_fail" => cb[j]
        /\ \A j \in DOMAIN t.constraints :
              (\E i \in 1..(j - 1) : cb[i]) => (cb[j] <=> t.constraints[j] = "always_fail")}

(***************************************************************************)
(* Workflow.fireEvent.  st is the running state of one dispatch: the error *)
(* to return, the event's blocking flag, the log and the number of         *)
(* listeners invoked so far; beh[k] is what the k-th invoked listener does.*)
(***************************************************************************)
\* The blocking flag after a listener that behaves as b.
Blocked(isBlocking, b) ==
    IF b.block = "true" THEN SetBlocking(isBlocking, TRUE)
    ELSE IF b.block = "false" THEN SetBlocking(isBlocking, FALSE)
    ELSE isBlocking

\* The dispatch state after the listener at position i of a tier, which
\* behaves as b, was called.
Called(st, ev, tier, i, b) ==
    [err |-> IF b.fails THEN CallbackErr([ev |-> ev, tier |-> tier, idx |-> i]) ELSE Nil,
     blocking |-> Blocked(st.blocking, b),
     trace |-> Append(st.trace, Entry(ev, tier, i, b)),
     n |-> st.n + 1]

\* Mutant of RunListeners: a listener error is kept but the loop goes on.
RECURSIVE RunListeners_KeepGoing(_, _, _, _, _, _)
RunListeners_KeepGoing(ls, tier, ev, beh, st, i) ==
    IF i > Len(ls) THEN st
    ELSE IF Asserts(ls[i], ev)
         THEN RunListeners_KeepGoing(ls, tier, ev, beh,
                 [Called(st, ev, tier, i, beh[st.n + 1]) EXCEPT
                     !.err = IF st.err # Nil THEN st.err ELSE @], i + 1)
         ELSE RunListeners_KeepGoing(ls, tier, ev, beh, st, i + 1)

\* The loop over the listeners of one tier, from position i.
RECURSIVE RunListeners(_, _, _, _, _, _)
RunListeners(ls, tier, ev, beh, st, i) ==
    IF i > Len(ls) \/ st.err # Nil THEN st
    ELSE IF Asserts(ls[i], ev)
         THEN RunListeners(ls, tier, ev, beh, Called(st, ev, tier, i, beh[st.n + 1]), i + 1)
         ELSE RunListeners(ls, tier, ev, beh, st, i + 1)

\* 1. Definition listeners
DefinitionTier(w, ev, beh, st) ==
    IF st.err # Nil THEN st
    ELSE RunListeners(w.defListeners[ev], "definition", ev, beh, st, 1)

\* 2. Manager listeners
ManagerTier(w, ev, beh, st) ==
    IF st.err # Nil \/ w.manager = "nil" THEN st
    ELSE RunListeners(w.mgrListeners[ev], "manager", ev, beh, st, 1)

\* 3. Instance listeners
InstanceTier(w, ev, beh, st) ==
    IF st.err # Nil THEN st
    ELSE RunListeners(w.listeners[ev], "workflow", ev, beh, st, 1)

\* The dispatch state of a fresh event.
NewEvent == [err |-> Nil, blocking |-> FALSE, trace |-> <<>>, n |-> 0]

\* Mutant of fireEvent: the Workflow's own listeners run first.
fireEvent_WorkflowFirst(w, ev, beh) ==
    ManagerTier(w, ev, beh, DefinitionTier(w, ev, beh, InstanceTier(w, ev, beh, NewEvent)))

\* Mutant of fireEvent: the listeners of the Definition are not called.
fireEvent_InstanceOnly(w, ev, beh) ==
    InstanceTier(w, ev, beh, ManagerTier(w, ev, beh, NewEvent))

fireEvent(w, ev, beh) ==
    InstanceTier(w, ev, beh, ManagerTier(w, ev, beh, DefinitionTier(w, ev, beh, NewEvent)))

\* The number of listeners a dispatch of ev can invoke.
Invocable(ls, ev) == Cardinality({i \in DOMAIN ls : Asserts(ls[i], ev)})

DispatchSize(w, ev) ==
    Invocable(w.defListeners[ev], ev)
    + (IF w.manager # "nil" THEN Invocable(w.mgrListeners[ev], ev) ELSE 0)
    + Invocable(w.listeners[ev], ev)

\* The answers the listeners of one dispatch can give.  A listener behind
\* the first failing one is not asked; its answer is fixed so that no call
\* is enumerated twice.
ListenerAnswers(w, ev) ==
    {beh \in [1..DispatchSize(w, ev) -> Behaviours(ev)] :
        \A k \in DOMAIN beh :
            (\E i \in 1..(k - 1) : beh[i].fails) => beh[k] = [block |-> "none", fails |-> FALSE]}

(***************************************************************************)
(* Workflow.EnabledTransitions.  The result is the sequence of positions   *)
(* in Definition.Transitions of the transitions the code appends.          *)
(***************************************************************************)
\* Mutant of AllFromPlacesPresent: the from places are compared with the
\* marking position by position.
AllFromPlacesPresent_Positional(trans, currentPlaces) ==
    \A k \in DOMAIN trans.from :
        k \in DOMAIN currentPlaces /\ currentPlaces[k] = trans.from[k]

AllFromPlacesPresent(trans, currentPlaces) ==
    \A k \in DOMAIN trans.from :
        \E j \in DOMAIN currentPlaces : currentPlaces[j] = trans.from[k]

RECURSIVE EnabledFrom(_, _, _)
EnabledFrom(w, i, enabled) ==
    IF i > Len(w.definition.Transitions) THEN enabled
    ELSE EnabledFrom(w, i + 1,
            IF AllFromPlacesPresent(w.definition.Transitions[i], Places(w.marking))
            THEN Append(enabled, i) ELSE enabled)

EnabledTransitions(w) == EnabledFrom(w, 1, <<>>)

\* Mutant of Matches: the two lists hold the same places, in any order.
Matches_AsSet(t, to) ==
    /\ Len(t.to) = Len(to)
    /\ Range(t.to) = Range(to)

\* len(t.To()) == len(to) and t.To()[i] == to[i] for every i
Matches(t, to) ==
    /\ Len(t.to) = Len(to)
    /\ \A i \in DOMAIN t.to : t.to[i] = to[i]

(***************************************************************************)
(* Workflow.CanWithContext.  The result is the returned error, the log of  *)
(* the callbacks that ran and the position of the matched transition       *)
(* (0 when none was matched).                                              *)
(***************************************************************************)
\* NewGuardEvent and NewEvent: the callbacks of the dispatch d receive an
\* event whose From() is from and whose To() is to, and w.CurrentPlaces()
\* returns them the places of the marking of w.
Delivered(d, w, from, to) ==
    [d EXCEPT !.trace = [k \in DOMAIN d.trace |->
                            d.trace[k] @@ [from |-> from, to |-> to,
                                           seen |-> Places(w.marking)]]]

\* The loop over enabled: the first enabled transition that matches to.
RECURSIVE FirstMatch(_, _, _, _)
FirstMatch(def, idxs, k, to) ==
    IF k > Len(idxs) THEN 0
    ELSE IF Matches(def.Transitions[idxs[k]], to) THEN idxs[k]
         ELSE FirstMatch(def, idxs, k + 1, to)

\* The end of the guard check: g is the dispatch of the guard event.
CanGuarded(sel, v, g) ==
    [err |-> IF g.err # Nil THEN g.err
             ELSE IF g.blocking THEN ErrTransitionNotAllowed ELSE Nil,
     trace |-> v.trace \o g.trace,
     sel |-> sel]

\* The guard check behind validate: v is the result of the constraints.
CanValidated(w, gb, sel, v) ==
    IF v.err # Nil THEN [err |-> v.err, trace |-> v.trace, sel |-> sel]
    ELSE CanGuarded(sel, v, fireEvent(w, EventGuard, gb))

\* Mutant of CanMatched: no match is reported as an invalid transition.
CanMatched_Invalid(w, cb, gb, sel) ==
    IF sel = 0 THEN [err |-> ErrInvalidTransition, trace |-> <<>>, sel |-> 0]
    ELSE CanValidated(w, gb, sel, validate(w.definition.Transitions[sel], cb))

\* The guard check for the matched transition sel.
CanMatched(w, cb, gb, sel) ==
    IF sel = 0 THEN [err |-> ErrTransitionNotAllowed, trace |-> <<>>, sel |-> 0]
    ELSE CanValidated(w, gb, sel, validate(w.definition.Transitions[sel], cb))

\* Mutant of CanWithContext: the target places are not looked up.
CanWithContext_NoPlaceCheck(w, to, cb, gb) ==
    IF Len(to) = 0 THEN [err |-> ErrInvalidTransition, trace |-> <<>>, sel |-> 0]
    ELSE CanMatched(w, cb, gb, FirstMatch(w.definition, EnabledTransitions(w), 1, to))

\* Mutant of CanWithContext: the length of the target list is not looked at.
CanWithContext_NoLengthCheck(w, to, cb, gb) ==
    IF \E i \in DOMAIN to : ~Place(w.definition, to[i])
    THEN [err |-> ErrInvalidPlace, trace |-> <<>>, sel |-> 0]
    ELSE CanMatched(w, cb, gb, FirstMatch(w.definition, EnabledTransitions(w), 1, to))

CanWithContext(w, to, cb, gb) ==
    IF Len(to) = 0 THEN [err |-> ErrInvalidTransition, trace |-> <<>>, sel |-> 0]
    ELSE IF \E i \in DOMAIN to : ~Place(w.definition, to[i])
    THEN [err |-> ErrInvalidPlace, trace |-> <<>>, sel |-> 0]
    ELSE Delivered(CanMatched(w, cb, gb,
                              FirstMatch(w.definition, EnabledTransitions(w), 1, to)),
                   w, Places(w.marking), to)

(***************************************************************************)
(* Workflow.ApplyWithContext.  The result is the returned error, the log   *)
(* of the callbacks that ran, the position of the transition the guard     *)
(* check matched, the position of the transition the re-scan selected      *)
(* (0 when the call returned before it) and the marking the call leaves.   *)
(***************************************************************************)
\* Mutant of Rescan: the from places are compared with the marking position
\* by position.
Rescan_Positional(def, i, currentPlaces, targetPlaces) ==
    IF \A k \in DOMAIN def.Transitions :
           ~(/\ AllFromPlacesPresent_Positional(def.Transitions[k], currentPlaces)
             /\ Matches(def.Transitions[k], targetPlaces))
    THEN 0
    ELSE CHOOSE k \in DOMAIN def.Transitions :
             /\ AllFromPlacesPresent_Positional(def.Transitions[k], currentPlaces)
             /\ Matches(def.Transitions[k], targetPlaces)
             /\ \A j \in DOMAIN def.Transitions :
                   (/\ AllFromPlacesPresent_Positional(def.Transitions[j], currentPlaces)
                    /\ Matches(def.Transitions[j], targetPlaces)) => k <= j

\* Mutant of Rescan: the last transition whose from places are all present
\* and whose to matches is selected.
Rescan_Last(def, i, currentPlaces, targetPlaces) ==
    IF \A k \in DOMAIN def.Transitions :
           ~(/\ AllFromPlacesPresent(def.Transitions[k], currentPlaces)
             /\ Matches(def.Transitions[k], targetPlaces))
    THEN 0
    ELSE CHOOSE k \in DOMAIN def.Transitions :
             /\ AllFromPlacesPresent(def.Transitions[k], currentPlaces)
             /\ Matches(def.Transitions[k], targetPlaces)
             /\ \A j \in DOMAIN def.Transitions :
                   (/\ AllFromPlacesPresent(def.Transitions[j], currentPlaces)
                    /\ Matches(def.Transitions[j], targetPlaces)) => j <= k

\* The re-scan of Definition.Transitions: the first transition whose from
\* places are all present and whose to matches.
RECURSIVE Rescan(_, _, _, _)
Rescan(def, i, currentPlaces, targetPlaces) ==
    IF i > Len(def.Transitions) THEN 0
    ELSE IF /\ AllFromPlacesPresent(def.Transitions[i], currentPlaces)
            /\ Matches(def.Transitions[i], targetPlaces)
         THEN i
         ELSE Rescan(def, i + 1, currentPlaces, targetPlaces)

\* Mutant of RemoveFrom: only the first from place is removed.
RemoveFrom_FirstOnly(currentPlaces, from, k, newPlaces) ==
    SelectSeq(currentPlaces, LAMBDA place : \A j \in DOMAIN from \cap {1} : place # from[j])

\* The places of currentPlaces that are not in from, in their order.
RECURSIVE RemoveFrom(_, _, _, _)
RemoveFrom(currentPlaces, from, k, newPlaces) ==
    IF k > Len(currentPlaces) THEN newPlaces
    ELSE RemoveFrom(currentPlaces, from, k + 1,
            IF \E j \in DOMAIN from : currentPlaces[k] = from[j]
            THEN newPlaces ELSE Append(newPlaces, currentPlaces[k]))

\* Mutant of NewPlaces: the target places are not appended.
NewPlaces_DropTargets(currentPlaces, from, targetPlaces) ==
    RemoveFrom(currentPlaces, from, 1, <<>>)

\* Mutant of NewPlaces: the from places are not removed.
NewPlaces_KeepFrom(currentPlaces, from, targetPlaces) == currentPlaces \o targetPlaces

\* newPlaces as handed to SetPlaces.
NewPlaces(currentPlaces, from, targetPlaces) ==
    RemoveFrom(currentPlaces, from, 1, <<>>) \o targetPlaces

\* The marking after the mutation step for the transition at position ti.
Mutated(w, ti, targetPlaces) ==
    SetPlaces(w.marking,
              NewPlaces(Places(w.marking), w.definition.Transitions[ti].from, targetPlaces))

\* The end of ApplyWithContext: after is the dispatch of after_transition.
Finished(trace, m, after) ==
    [err |-> after.err, trace |-> trace \o after.trace, marking |-> m]

\* ApplyWithContext behind the before_transition event, whose dispatch is
\* before: the mutation and the after_transition event.
Proceed(w, ti, targetPlaces, trace, ab, before) ==
    IF before.err # Nil
    THEN [err |-> before.err, trace |-> trace \o before.trace, marking |-> w.marking]
    ELSE Finished(trace \o before.trace, Mutated(w, ti, targetPlaces),
                  Delivered(fireEvent([w EXCEPT !.marking = Mutated(w, ti, targetPlaces)],
                                      EventAfterTransition, ab),
                            [w EXCEPT !.marking = Mutated(w, ti, targetPlaces)],
                            w.definition.Transitions[ti].from, targetPlaces))

\* Mutant of Commit: the marking is set before the before_transition event.
Commit_MutateFirst(w, ti, targetPlaces, trace, bb, ab) ==
    [Proceed([w EXCEPT !.marking = Mutated(w, ti, targetPlaces)], ti, targetPlaces,
             trace, ab,
             Delivered(fireEvent(w, EventBeforeTransition, bb),
                       [w EXCEPT !.marking = Mutated(w, ti, targetPlaces)],
                       w.definition.Transitions[ti].from, targetPlaces))
        EXCEPT !.marking = Mutated(w, ti, targetPlaces)]

\* Mutant of Commit: an after_transition error restores the old marking.
Commit_Rollback(w, ti, targetPlaces, trace, bb, ab) ==
    [Proceed(w, ti, targetPlaces, trace, ab, fireEvent(w, EventBeforeTransition, bb))
        EXCEPT !.marking = IF Proceed(w, ti, targetPlaces, trace, ab,
                                      fireEvent(w, EventBeforeTransition, bb)).err # Nil
                           THEN w.marking ELSE @]

\* The part of ApplyWithContext behind the re-scan: the before_transition
\* event, the mutation of the marking and the after_transition event, for
\* the transition at position ti; trace is the log of the guard check.
Commit(w, ti, targetPlaces, trace, bb, ab) ==
    Proceed(w, ti, targetPlaces, trace, ab,
            Delivered(fireEvent(w, EventBeforeTransition, bb), w,
                      w.definition.Transitions[ti].from, targetPlaces))

\* ApplyWithContext behind the re-scan, which selected ti.
ApplySelected(w, targetPlaces, bb, ab, can, ti) ==
    IF ti = 0
    THEN [err |-> ErrInvalidTransition, trace |-> can.trace, matched |-> can.sel,
          sel |-> 0, marking |-> w.marking]
    ELSE [matched |-> can.sel, sel |-> ti]
         @@ Commit(w, ti, targetPlaces, can.trace, bb, ab)

\* ApplyWithContext behind the guard check, whose result is can.
ApplyChecked(w, targetPlaces, bb, ab, can) ==
    IF can.err # Nil
    THEN [err |-> can.err, trace |-> can.trace, matched |-> can.sel, sel |-> 0,
          marking |-> w.marking]
    ELSE ApplySelected(w, targetPlaces, bb, ab, can,
                       Rescan(w.definition, 1, Places(w.marking), targetPlaces))

ApplyWithContext(w, targetPlaces, cb, gb, bb, ab) ==
    IF \E i \in DOMAIN targetPlaces : ~Place(w.definition, targetPlaces[i])
    THEN [err |-> ErrInvalidPlace, trace |-> <<>>, matched |-> 0, sel |-> 0,
          marking |-> w.marking]
    ELSE ApplyChecked(w, targetPlaces, bb, ab, CanWithContext(w, targetPlaces, cb, gb))

(***************************************************************************)
(* The workflow, its Definition and its Manager as one value.              *)
(***************************************************************************)
Self ==
    [definition |-> definition, marking |-> marking, defListeners |-> defListeners,
     mgrListeners |-> mgrListeners, listeners |-> listeners, manager |-> manager,
     context |-> context, initialPlace |-> initialPlace]

NoListeners == [ev \in EventTypes |-> <<>>]

Registered(tbl) == Len(tbl[EventGuard]) + Len(tbl[EventBeforeTransition])
                   + Len(tbl[EventAfterTransition])

TotalListeners == Registered(defListeners) + Registered(mgrListeners) + Registered(listeners)

\* The target lists a caller passes: the to lists of the transitions, their
\* reversals, the empty list and a list with an undeclared place.
Reverse(s) == [i \in DOMAIN s |-> s[Len(s) + 1 - i]]

Targets(def) ==
    {def.Transitions[i].to : i \in DOMAIN def.Transitions}
    \cup {Reverse(def.Transitions[i].to) : i \in DOMAIN def.Transitions}
    \cup {<<>>, <<Undeclared>>, <<def.Places[1], Undeclared>>}

\* The transition whose constraints a guard check of to would validate.
Matched(w, to) ==
    IF \E i \in DOMAIN to : ~Place(w.definition, to[i]) THEN 0
    ELSE FirstMatch(w.definition, EnabledTransitions(w), 1, to)

AnswersFor(w, to) ==
    IF Matched(w, to) = 0 THEN {<<>>}
    ELSE ConstraintAnswers(w.definition.Transitions[Matched(w, to)])

\* The answers of the listeners a call reaches: a dispatch that the call
\* does not reach asks no listener.  can is the result of the guard check.
GuardAnswersFor(w, to, cb) ==
    IF Matched(w, to) = 0 \/ (\E j \in DOMAIN cb : cb[j]) THEN {<<>>}
    ELSE ListenerAnswers(w, EventGuard)

BeforeAnswersFor(w, can) ==
    IF can.err # Nil THEN {<<>>} ELSE ListenerAnswers(w, EventBeforeTransition)

AfterAnswersFor(w, can, bb) ==
    IF can.err # Nil \/ (\E k \in DOMAIN bb : bb[k].fails) THEN {<<>>}
    ELSE ListenerAnswers(w, EventAfterTransition)

\* The keys and values a caller stores in the context of the workflow.
ContextKeys == {"key"}

ContextValues == {"value"}

\* make(map[string]interface{})
NoContext == [k \in {} |-> "value"]

\* The record of the last call: the operation, its argument, the returned
\* error, the callbacks that ran in the order they ran, the transition the
\* guard check matched, the transition the re-scan of Apply selected, the
\* marking before the call and the result of EnabledTransitions.
NoCall == [op |-> "none", to |-> <<>>, err |-> Nil, trace |-> <<>>, matched |-> 0,
           sel |-> 0, pre |-> <<>>, enabled |-> <<>>]

(***************************************************************************)
(* Registry: the map from name to *Workflow, its RWMutex and the           *)
(* goroutines that call it.                                                *)
(***************************************************************************)
\* Goroutines that call the Registry at the same time.
NumProcs == 2
\* numOperations: the rounds of the loop each goroutine runs.
MaxOperations == 1

Procs == 1..NumProcs

\* The goroutine of the test function, which makes its calls one by one.
Main == 1

\* Workflow names: "workflow-0", a name several callers add at the same
\* time, and "concurrent-workflow-<writerID>".
NoName == <<"", 0>>
BaseName == <<"workflow", 0>>
SharedName == <<"shared", 0>>
OwnName(p) == <<"concurrent-workflow", p>>

\* A *Workflow: the name of the workflow and the identity of the pointer.
NilWorkflow == [name |-> NoName, id |-> 0 - 1]

createTestWorkflow(name, id) == [name |-> name, id |-> id]

\* Workflow.Name
Name(wf) == wf.name

\* NewRegistry: make(map[string]*Workflow)
NewRegistry == [n \in {} |-> NilWorkflow]

\* _, exists := r.workflows[name]
Exists(m, name) == name \in DOMAIN m

\* wf, ok := r.workflows[name]
Lookup(m, name) ==
    IF name \in DOMAIN m THEN [wf |-> m[name], ok |-> TRUE]
    ELSE [wf |-> NilWorkflow, ok |-> FALSE]

\* r.workflows[name] = wf
Insert(m, name, wf) == [n \in DOMAIN m \cup {name} |-> IF n = name THEN wf ELSE m[n]]

\* delete(r.workflows, name)
Delete(m, name) == [n \in DOMAIN m \ {name} |-> m[n]]

\* sync.RWMutex: the goroutine that called Lock (0 when none) and the
\* goroutines that hold the read lock.
Unlocked == [writer |-> 0, readers |-> {}]

\* Mutant of CanLock: Lock does not wait for another writer.
CanLock_Always(m) == TRUE

\* Lock excludes other writers at once and from then on keeps new readers
\* out.
CanLock(m) == m.writer = 0

Lock(m, p) == [m EXCEPT !.writer = p]

\* Lock returns when the readers that were in have left.
Drained(m) == m.readers = {}

Unlock(m, p) == [m EXCEPT !.writer = 0]

\* RLock waits while a writer holds the lock or waits for it.
CanRLock(m) == m.writer = 0

\* Mutant of RLock: the reader is not counted.
RLock_Forget(m, p) == m

RLock(m, p) == [m EXCEPT !.readers = @ \cup {p}]

RUnlock(m, p) == [m EXCEPT !.readers = @ \ {p}]

\* The calls and their results.
NoArgs == [op |-> "none", name |-> NoName, wf |-> NilWorkflow, pre |-> NewRegistry]

CallAdd(wf) == [NoArgs EXCEPT !.op = "AddWorkflow", !.wf = wf]
CallRemove(name) == [NoArgs EXCEPT !.op = "RemoveWorkflow", !.name = name]
CallWorkflow(name) == [NoArgs EXCEPT !.op = "Workflow", !.name = name]
CallHas(name) == [NoArgs EXCEPT !.op = "HasWorkflow", !.name = name]
CallList == [NoArgs EXCEPT !.op = "ListWorkflows"]

\* The error values are told apart by their format strings.
ErrNilWorkflow == "workflow cannot be nil"
ErrAlreadyExists == "workflow with name %s already exists"
ErrNotFound == "workflow %s not found"

NoRet == [err |-> "none", wf |-> NilWorkflow, exists |-> FALSE, names |-> <<>>]

\* The first statement of each method.
Entry_pc(op) ==
    CASE op = "AddWorkflow" -> "add_lock"
      [] op = "RemoveWorkflow" -> "rm_lock"
      [] op = "Workflow" -> "wf_read"
      [] op = "HasWorkflow" -> "has_rlock"
      [] op = "ListWorkflows" -> "list_rlock"

\* TestRegistry_ConcurrentAccess: a reader goroutine, a writer goroutine,
\* and a goroutine that adds a workflow under a name others add too.
Roles == {"reader", "writer", "adder"}

RECURSIVE Rounds(_, _)
Rounds(body, n) == IF n = 0 THEN <<>> ELSE body \o Rounds(body, n - 1)

Program(r, p) ==
    CASE r = "reader" ->
            Rounds(<<CallWorkflow(BaseName), CallHas(BaseName), CallList>>, MaxOperations)
      [] r = "writer" ->
            Rounds(<<CallAdd(createTestWorkflow(OwnName(p), p)), CallRemove(OwnName(p))>>,
                   MaxOperations)
      [] r = "adder" -> <<CallAdd(createTestWorkflow(SharedName, p))>>

\* The calls the test function makes one by one.
SeqNames == {BaseName, SharedName}

Calls ==
    {CallAdd(createTestWorkflow(n, p)) : n \in SeqNames, p \in Procs}
    \cup {CallAdd(NilWorkflow), CallList}
    \cup {CallRemove(n) : n \in SeqNames}
    \cup {CallWorkflow(n) : n \in SeqNames}
    \cup {CallHas(n) : n \in SeqNames}

\* The Registry is not in use.
NoRegistry ==
    /\ workflows = NewRegistry
    /\ mu = Unlocked
    /\ pc = [p \in Procs |-> "idle"]
    /\ call = [p \in Procs |-> NoArgs]
    /\ ret = [p \in Procs |-> NoRet]
    /\ todo = [p \in Procs |-> <<>>]
    /\ role = [p \in Procs |-> "none"]
    /\ crashed = FALSE

(***************************************************************************)
(* The results of the constructors, of the diagram generator and of the    *)
(* Manager, the Storage and the second Workflow.                           *)
(***************************************************************************)
\* Longest list of places handed to a constructor.
MaxPlaces == 2

\* The lists of places a caller hands to NewTransition and NewDefinition.
PlaceLists == UNION {[1..k -> {"a", "b"}] : k \in 0..MaxPlaces}

\* The record of a call: the operation, its arguments, whether it has
\* returned, the returned error, the returned value and the value the call
\* panicked with (Nil when it did not panic).
NoOut ==
    [op |-> "none", args |-> <<>>, returned |-> FALSE, err |-> Nil, value |-> <<>>,
     panic |-> Nil]

\* Storage: nothing is saved under the id of the workflow.  isNil says
\* that the context map is nil.  by and initialPlace are not stored: they
\* record the call that saved the state and the initial place of the
\* workflow it saved.
NoState ==
    [saved |-> FALSE, places |-> <<>>, context |-> NoContext, isNil |-> FALSE,
     by |-> "", initialPlace |-> ""]

\* No second Workflow was made.
NoWorkflow ==
    [initialPlace |-> "", marking |-> <<>>, listeners |-> NoListeners,
     context |-> NoContext, isNil |-> FALSE, manager |-> "nil"]

\* A nil *Definition.
NilDefinition == [Places |-> <<>>, Transitions |-> <<>>, isNil |-> TRUE]

\* A self-loop, a transition that leaves the same place, and a transition
\* with several from places and several to places.
Tangled ==
    [Places |-> <<"start", "end", "left", "right">>,
     Transitions |-> << T("stay", <<"start">>, <<"start">>, <<>>),
                        T("leave", <<"start">>, <<"end">>, <<>>),
                        T("cross", <<"start", "end">>, <<"left", "right">>, <<>>) >>]

\* Mutant of NewWorkflow: the initial place is not looked up.
NewWorkflow_AnyPlace(name, def, place) ==
    IF name = "" THEN Errorf("workflow name cannot be empty", <<>>)
    ELSE IF def = NilDefinition THEN Errorf("workflow definition cannot be nil", <<>>)
    ELSE Nil

\* NewWorkflow: the error the constructor returns, Nil when it returns a
\* workflow.
NewWorkflow(name, def, place) ==
    IF name = "" THEN Errorf("workflow name cannot be empty", <<>>)
    ELSE IF def = NilDefinition THEN Errorf("workflow definition cannot be nil", <<>>)
    ELSE IF ~Place(def, place)
    THEN Errorf("initial place %s is not defined in the workflow", <<place>>)
    ELSE Nil

(***************************************************************************)
(* Workflow.GenerateMermaidDiagram.  The text is the sequence of its       *)
(* lines, a line the sequence of the pieces Sprintf puts together; the     *)
(* name of a node is a sequence of pieces too.                             *)
(***************************************************************************)
\* "    %s --> %s"
Arrow(from, to) == <<"    ">> \o from \o <<" --> ">> \o to

\* Mutant of TransitionLines: a fork is always fed from the first from place.
TransitionLines_NoJoin(trans) ==
    IF Len(trans.to) > 1
    THEN << <<"    state ", trans.name, "_fork", " <<fork>>">>,
            Arrow(<<trans.from[1]>>, <<trans.name, "_fork">>) \o <<" : ", trans.name>> >>
         \o [k \in DOMAIN trans.to |-> Arrow(<<trans.name, "_fork">>, <<trans.to[k]>>)]
    ELSE IF Len(trans.from) > 1
    THEN << <<"    state ", trans.name, "_join", " <<join>>">> >>
         \o [k \in DOMAIN trans.from |->
                Arrow(<<trans.from[k]>>, <<trans.name, "_join">>) \o <<" : ", trans.name>>]
         \o << Arrow(<<trans.name, "_join">>, <<trans.to[1]>>) >>
    ELSE << Arrow(<<trans.from[1]>>, <<trans.to[1]>>) \o <<" : ", trans.name>> >>

\* The lines the body of the loop over the transitions writes for trans.
TransitionLines(trans) ==
    IF Len(trans.to) > 1
    THEN << <<"    state ", trans.name, "_fork", " <<fork>>">> >>
         \o (IF Len(trans.from) > 1
             THEN << <<"    state ", trans.name, "_join", " <<join>>">> >>
                  \o [k \in DOMAIN trans.from |->
                         Arrow(<<trans.from[k]>>, <<trans.name, "_join">>)
                         \o <<" : ", trans.name>>]
                  \o << Arrow(<<trans.name, "_join">>, <<trans.name, "_fork">>) >>
             ELSE << Arrow(<<trans.from[1]>>, <<trans.name, "_fork">>)
                     \o <<" : ", trans.name>> >>)
         \o [k \in DOMAIN trans.to |-> Arrow(<<trans.name, "_fork">>, <<trans.to[k]>>)]
    ELSE IF Len(trans.from) > 1
    THEN << <<"    state ", trans.name, "_join", " <<join>>">> >>
         \o [k \in DOMAIN trans.from |->
                Arrow(<<trans.from[k]>>, <<trans.name, "_join">>) \o <<" : ", trans.name>>]
         \o << Arrow(<<trans.name, "_join">>, <<trans.to[1]>>) >>
    ELSE << Arrow(<<trans.from[1]>>, <<trans.to[1]>>) \o <<" : ", trans.name>> >>

\* The loop over w.definition.Transitions, from position i.
RECURSIVE WriteTransitions(_, _, _)
WriteTransitions(def, i, lines) ==
    IF i > Len(def.Transitions) THEN lines
    ELSE WriteTransitions(def, i + 1, lines \o TransitionLines(def.Transitions[i]))

\* Mutant of GenerateMermaidDiagram: the current places are written only for
\* a workflow without context entries.
GenerateMermaidDiagram_Context(w) ==
    << <<"stateDiagram-v2">>,
       <<"    classDef currentPlace font-weight:bold,stroke-width:4px">> >>
    \o [i \in DOMAIN w.definition.Places |-> <<"    ", w.definition.Places[i]>>]
    \o WriteTransitions(w.definition, 1, <<>>)
    \o (IF Len(Places(w.marking)) > 0 /\ w.context = NoContext
        THEN << <<>>, <<"    %% Current places">> >>
             \o [k \in DOMAIN Places(w.marking) |->
                    <<"    class ", Places(w.marking)[k], " currentPlace">>]
        ELSE <<>>)
    \o << <<>>, <<"    %% Initial place">>, <<"    [*] --> ", w.initialPlace>> >>

GenerateMermaidDiagram(w) ==
    << <<"stateDiagram-v2">>,
       <<"    classDef currentPlace font-weight:bold,stroke-width:4px">> >>
    \o [i \in DOMAIN w.definition.Places |-> <<"    ", w.definition.Places[i]>>]
    \o WriteTransitions(w.definition, 1, <<>>)
    \o (IF Len(Places(w.marking)) > 0
        THEN << <<>>, <<"    %% Current places">> >>
             \o [k \in DOMAIN Places(w.marking) |->
                    <<"    class ", Places(w.marking)[k], " currentPlace">>]
        ELSE <<>>)
    \o << <<>>, <<"    %% Initial place">>, <<"    [*] --> ", w.initialPlace>> >>

\* The slice variables that are followed: marking.places, the fields Places
\* and Transitions of the Definition, and the []Place and []Transition
\* variables of the calling program.
Slices == <<"m", "dPlaces", "dTransitions", "places", "transitions">>

\* The addresses of the backing arrays of slices.  A slice value is the
\* address of its backing array: two slice values of one address share
\* their elements.  An array is named after the first slice variable that
\* refers to it; the array that make returns is named "fresh" at first.
Addresses == {Slices[i] : i \in DOMAIN Slices} \cup {"fresh"}

\* No slice is followed: m is marking.places, dPlaces and dTransitions are
\* the fields Places and Transitions of the Definition, places and
\* transitions are the slice variables of the calling program, from names
\* the calls places was passed to or returned by, op is the last operation.
NoHeap ==
    [arrays |-> [a \in Addresses |-> <<>>], m |-> "nil", dPlaces |-> "nil",
     dTransitions |-> "nil", places |-> "nil", transitions |-> "nil", from |-> {},
     op |-> "none"]

\* The specifications of the calls and of the Registry do not follow the
\* initial place, the Storage, a second Workflow or the constructors.
NoLifecycle ==
    /\ initialPlace = ""
    /\ storage = NoState
    /\ other = NoWorkflow
    /\ heap = NoHeap

(***************************************************************************)
(* Init: NewDefinition, NewManager and NewWorkflow have returned.          *)
(***************************************************************************)
Init ==
    /\ definition \in Definitions
    /\ \E place \in Range(definition.Places) :
          /\ Place(definition, place)
          /\ marking = NewMarking(<<place>>)
    /\ defListeners = NoListeners
    /\ mgrListeners = NoListeners
    /\ listeners = NoListeners
    /\ manager = "nil"
    /\ context = NoContext
    /\ last = NoCall
    /\ NoRegistry
    /\ NoLifecycle
    /\ out = NoOut

(***************************************************************************)
(* Listener registration.                                                  *)
(***************************************************************************)
\* Definition.AddEventListener
DefAddEventListener(cap) ==
    /\ TotalListeners < cap
    /\ \E eventType \in EventTypes :
          defListeners' = [defListeners EXCEPT
                              ![eventType] = Append(@, "EventListener")]
    /\ last' = NoCall
    /\ UNCHANGED <<definition, marking, mgrListeners, listeners, manager, context>>
    /\ UNCHANGED <<registryVars, lifecycleVars>>

\* Definition.AddGuardEventListener
DefAddGuardEventListener(cap) ==
    /\ TotalListeners < cap
    /\ defListeners' = [defListeners EXCEPT
                           ![EventGuard] = Append(@, "GuardEventListener")]
    /\ last' = NoCall
    /\ UNCHANGED <<definition, marking, mgrListeners, listeners, manager, context>>
    /\ UNCHANGED <<registryVars, lifecycleVars>>

\* Manager.AddEventListener
MgrAddEventListener(cap) ==
    /\ TotalListeners < cap
    /\ \E eventType \in EventTypes :
          mgrListeners' = [mgrListeners EXCEPT
                              ![eventType] = Append(@, "EventListener")]
    /\ last' = NoCall
    /\ UNCHANGED <<definition, marking, defListeners, listeners, manager, context>>
    /\ UNCHANGED <<registryVars, lifecycleVars>>

\* Manager.AddGuardEventListener
MgrAddGuardEventListener(cap) ==
    /\ TotalListeners < cap
    /\ mgrListeners' = [mgrListeners EXCEPT
                           ![EventGuard] = Append(@, "GuardEventListener")]
    /\ last' = NoCall
    /\ UNCHANGED <<definition, marking, defListeners, listeners, manager, context>>
    /\ UNCHANGED <<registryVars, lifecycleVars>>

\* Workflow.AddEventListener
AddEventListener(cap) ==
    /\ TotalListeners < cap
    /\ \E eventType \in EventTypes :
          listeners' = [listeners EXCEPT ![eventType] = Append(@, "EventListener")]
    /\ last' = NoCall
    /\ UNCHANGED <<definition, marking, defListeners, mgrListeners, manager, context>>
    /\ UNCHANGED <<registryVars, lifecycleVars>>

\* Workflow.AddGuardEventListener
AddGuardEventListener(cap) ==
    /\ TotalListeners < cap
    /\ listeners' = [listeners EXCEPT ![EventGuard] = Append(@, "GuardEventListener")]
    /\ last' = NoCall
    /\ UNCHANGED <<definition, marking, defListeners, mgrListeners, manager, context>>
    /\ UNCHANGED <<registryVars, lifecycleVars>>

\* Workflow.SetContext
SetContext ==
    /\ \E key \in ContextKeys, value \in ContextValues :
          context' = [k \in DOMAIN context \cup {key} |->
                         IF k = key THEN value ELSE context[k]]
    /\ last' = NoCall
    /\ UNCHANGED <<definition, marking, defListeners, mgrListeners, listeners, manager>>
    /\ UNCHANGED <<registryVars, lifecycleVars>>

\* Workflow.SetManager, with the manager or with nil
SetManager ==
    /\ \E m \in {"nil", "manager"} : manager' = m
    /\ last' = NoCall
    /\ UNCHANGED <<definition, marking, defListeners, mgrListeners, listeners, context>>
    /\ UNCHANGED <<registryVars, lifecycleVars>>

(***************************************************************************)
(* The calls.                                                              *)
(***************************************************************************)
\* Mutant of Can: the check is made by applying the transition.
Can_Applies ==
    \E to \in Targets(definition) :
    \E cb \in AnswersFor(Self, to) :
    \E gb \in GuardAnswersFor(Self, to, cb) :
    \E can \in {CanWithContext(Self, to, cb, gb)} :
    \E bb \in BeforeAnswersFor(Self, can) :
    \E ab \in AfterAnswersFor(Self, can, bb) :
    \E r \in {ApplyWithContext(Self, to, cb, gb, bb, ab)} :
        /\ marking' = r.marking
        /\ last' = [op |-> "Can", to |-> to, err |-> r.err, trace |-> r.trace,
                    matched |-> r.matched, sel |-> 0, pre |-> marking, enabled |-> <<>>]
        /\ UNCHANGED <<definition, defListeners, mgrListeners, listeners, manager, context>>
        /\ UNCHANGED <<registryVars, lifecycleVars>>

\* Workflow.Can
Can ==
    \E to \in Targets(definition) :
    \E cb \in AnswersFor(Self, to) :
    \E gb \in GuardAnswersFor(Self, to, cb) :
    \E r \in {CanWithContext(Self, to, cb, gb)} :
        /\ last' = [op |-> "Can", to |-> to, err |-> r.err, trace |-> r.trace,
                    matched |-> r.sel, sel |-> 0, pre |-> marking, enabled |-> <<>>]
        /\ UNCHANGED <<definition, marking, defListeners, mgrListeners, listeners,
                       manager, context>>
        /\ UNCHANGED <<registryVars, lifecycleVars>>

\* Workflow.Apply
Apply ==
    \E targetPlaces \in Targets(definition) :
    \E cb \in AnswersFor(Self, targetPlaces) :
    \E gb \in GuardAnswersFor(Self, targetPlaces, cb) :
    \E can \in {CanWithContext(Self, targetPlaces, cb, gb)} :
    \E bb \in BeforeAnswersFor(Self, can) :
    \E ab \in AfterAnswersFor(Self, can, bb) :
    \E r \in {ApplyWithContext(Self, targetPlaces, cb, gb, bb, ab)} :
        /\ marking' = r.marking
        /\ last' = [op |-> "Apply", to |-> targetPlaces, err |-> r.err,
                    trace |-> r.trace, matched |-> r.matched, sel |-> r.sel,
                    pre |-> marking, enabled |-> <<>>]
        /\ UNCHANGED <<definition, defListeners, mgrListeners, listeners, manager, context>>
        /\ UNCHANGED <<registryVars, lifecycleVars>>

\* Workflow.EnabledTransitions
GetEnabledTransitions ==
    /\ last' = [op |-> "EnabledTransitions", to |-> <<>>, err |-> Nil, trace |-> <<>>,
                matched |-> 0, sel |-> 0, pre |-> marking,
                enabled |-> EnabledTransitions(Self)]
    /\ UNCHANGED <<definition, marking, defListeners, mgrListeners, listeners, manager,
                   context>>
    /\ UNCHANGED <<registryVars, lifecycleVars>>

Next ==
    \/ DefAddEventListener(MaxListenersAny)
    \/ DefAddGuardEventListener(MaxListenersAny)
    \/ MgrAddEventListener(MaxListenersAny)
    \/ MgrAddGuardEventListener(MaxListenersAny)
    \/ AddEventListener(MaxListenersAny)
    \/ AddGuardEventListener(MaxListenersAny)
    \/ SetManager
    \/ SetContext
    \/ Can
    \/ Apply
    \/ GetEnabledTransitions

\* Every Definition, few listeners.
Spec == Init /\ [][Next]_vars

NextDispatch ==
    \/ DefAddEventListener(MaxListeners)
    \/ DefAddGuardEventListener(MaxListeners)
    \/ MgrAddEventListener(MaxListeners)
    \/ MgrAddGuardEventListener(MaxListeners)
    \/ AddEventListener(MaxListeners)
    \/ AddGuardEventListener(MaxListeners)
    \/ SetManager
    \/ Can
    \/ Apply
    \/ GetEnabledTransitions

InitDispatch == Init /\ definition = Constrained

\* One Definition with constraints, more listeners.
SpecDispatch == InitDispatch /\ [][NextDispatch]_vars

(***************************************************************************)
(* Registry methods, statement by statement.  pc[p] is the statement       *)
(* goroutine p executes next, call[p] the call it is in and ret[p] the     *)
(* values that call returns.                                               *)
(***************************************************************************)
\* A goroutine of the concurrent test makes the next call of its loop.
Begin(p) ==
    /\ ~crashed
    /\ pc[p] = "idle"
    /\ todo[p] # <<>>
    /\ call' = [call EXCEPT ![p] = Head(todo[p])]
    /\ todo' = [todo EXCEPT ![p] = Tail(todo[p])]
    /\ pc' = [pc EXCEPT ![p] = Entry_pc(Head(todo[p]).op)]
    /\ ret' = [ret EXCEPT ![p] = NoRet]
    /\ UNCHANGED <<workflows, mu, role, crashed>>
    /\ UNCHANGED <<workflowVars, lifecycleVars>>

\* The test function makes a call while no other call is running.
BeginAny(p) ==
    /\ ~crashed
    /\ p = Main
    /\ \A q \in Procs : pc[q] = "idle"
    /\ \E c \in Calls :
          /\ call' = [call EXCEPT ![p] = [c EXCEPT !.pre = workflows]]
          /\ pc' = [pc EXCEPT ![p] = Entry_pc(c.op)]
    /\ ret' = [ret EXCEPT ![p] = NoRet]
    /\ UNCHANGED <<workflows, mu, todo, role, crashed>>
    /\ UNCHANGED <<workflowVars, lifecycleVars>>

\* AddWorkflow: r.mu.Lock()
AddWorkflowLock(p) ==
    /\ ~crashed
    /\ pc[p] = "add_lock"
    /\ CanLock(mu)
    /\ mu' = Lock(mu, p)
    /\ pc' = [pc EXCEPT ![p] = "add_check"]
    /\ UNCHANGED <<workflows, call, ret, todo, role, crashed>>
    /\ UNCHANGED <<workflowVars, lifecycleVars>>

\* Mutant of AddWorkflowCheck: the name is not looked up.
AddWorkflowCheck_NoLookup(p) ==
    /\ ~crashed
    /\ pc[p] = "add_check"
    /\ Drained(mu)
    /\ IF call[p].wf = NilWorkflow
       THEN /\ ret' = [ret EXCEPT ![p].err = ErrNilWorkflow]
            /\ pc' = [pc EXCEPT ![p] = "add_unlock"]
       ELSE /\ pc' = [pc EXCEPT ![p] = "add_insert"]
            /\ ret' = ret
    /\ UNCHANGED <<workflows, mu, call, todo, role, crashed>>
    /\ UNCHANGED <<workflowVars, lifecycleVars>>

\* AddWorkflow: the nil check and the lookup of the name, once Lock has
\* returned.
AddWorkflowCheck(p) ==
    /\ ~crashed
    /\ pc[p] = "add_check"
    /\ Drained(mu)
    /\ IF call[p].wf = NilWorkflow
       THEN /\ ret' = [ret EXCEPT ![p].err = ErrNilWorkflow]
            /\ pc' = [pc EXCEPT ![p] = "add_unlock"]
       ELSE IF Exists(workflows, Name(call[p].wf))
       THEN /\ ret' = [ret EXCEPT ![p].err = ErrAlreadyExists]
            /\ pc' = [pc EXCEPT ![p] = "add_unlock"]
       ELSE /\ pc' = [pc EXCEPT ![p] = "add_insert"]
            /\ ret' = ret
    /\ UNCHANGED <<workflows, mu, call, todo, role, crashed>>
    /\ UNCHANGED <<workflowVars, lifecycleVars>>

\* AddWorkflow: r.workflows[name] = wf; return nil
AddWorkflowInsert(p) ==
    /\ ~crashed
    /\ pc[p] = "add_insert"
    /\ workflows' = Insert(workflows, Name(call[p].wf), call[p].wf)
    /\ ret' = [ret EXCEPT ![p].err = "nil"]
    /\ pc' = [pc EXCEPT ![p] = "add_unlock"]
    /\ UNCHANGED <<mu, call, todo, role, crashed>>
    /\ UNCHANGED <<workflowVars, lifecycleVars>>

\* AddWorkflow: the deferred r.mu.Unlock()
AddWorkflowUnlock(p) ==
    /\ ~crashed
    /\ pc[p] = "add_unlock"
    /\ mu' = Unlock(mu, p)
    /\ pc' = [pc EXCEPT ![p] = "idle"]
    /\ UNCHANGED <<workflows, call, ret, todo, role, crashed>>
    /\ UNCHANGED <<workflowVars, lifecycleVars>>

\* RemoveWorkflow: r.mu.Lock()
RemoveWorkflowLock(p) ==
    /\ ~crashed
    /\ pc[p] = "rm_lock"
    /\ CanLock(mu)
    /\ mu' = Lock(mu, p)
    /\ pc' = [pc EXCEPT ![p] = "rm_check"]
    /\ UNCHANGED <<workflows, call, ret, todo, role, crashed>>
    /\ UNCHANGED <<workflowVars, lifecycleVars>>

\* RemoveWorkflow: the lookup of the name, once Lock has returned.
RemoveWorkflowCheck(p) ==
    /\ ~crashed
    /\ pc[p] = "rm_check"
    /\ Drained(mu)
    /\ IF ~Exists(workflows, call[p].name)
       THEN /\ ret' = [ret EXCEPT ![p].err = ErrNotFound]
            /\ pc' = [pc EXCEPT ![p] = "rm_unlock"]
       ELSE /\ pc' = [pc EXCEPT ![p] = "rm_delete"]
            /\ ret' = ret
    /\ UNCHANGED <<workflows, mu, call, todo, role, crashed>>
    /\ UNCHANGED <<workflowVars, lifecycleVars>>

\* RemoveWorkflow: delete(r.workflows, name); return nil
RemoveWorkflowDelete(p) ==
    /\ ~crashed
    /\ pc[p] = "rm_delete"
    /\ workflows' = Delete(workflows, call[p].name)
    /\ ret' = [ret EXCEPT ![p].err = "nil"]
    /\ pc' = [pc EXCEPT ![p] = "rm_unlock"]
    /\ UNCHANGED <<mu, call, todo, role, crashed>>
    /\ UNCHANGED <<workflowVars, lifecycleVars>>

\* RemoveWorkflow: the deferred r.mu.Unlock()
RemoveWorkflowUnlock(p) ==
    /\ ~crashed
    /\ pc[p] = "rm_unlock"
    /\ mu' = Unlock(mu, p)
    /\ pc' = [pc EXCEPT ![p] = "idle"]
    /\ UNCHANGED <<workflows, call, ret, todo, role, crashed>>
    /\ UNCHANGED <<workflowVars, lifecycleVars>>

\* HasWorkflow: r.mu.RLock()
HasWorkflowRLock(p) ==
    /\ ~crashed
    /\ pc[p] = "has_rlock"
    /\ CanRLock(mu)
    /\ mu' = RLock(mu, p)
    /\ pc' = [pc EXCEPT ![p] = "has_read"]
    /\ UNCHANGED <<workflows, call, ret, todo, role, crashed>>
    /\ UNCHANGED <<workflowVars, lifecycleVars>>

\* HasWorkflow: _, exists := r.workflows[name]
HasWorkflowRead(p) ==
    /\ ~crashed
    /\ pc[p] = "has_read"
    /\ ret' = [ret EXCEPT ![p].exists = Exists(workflows, call[p].name)]
    /\ pc' = [pc EXCEPT ![p] = "has_runlock"]
    /\ UNCHANGED <<workflows, mu, call, todo, role, crashed>>
    /\ UNCHANGED <<workflowVars, lifecycleVars>>

\* HasWorkflow: the deferred r.mu.RUnlock()
HasWorkflowRUnlock(p) ==
    /\ ~crashed
    /\ pc[p] = "has_runlock"
    /\ mu' = RUnlock(mu, p)
    /\ pc' = [pc EXCEPT ![p] = "idle"]
    /\ UNCHANGED <<workflows, call, ret, todo, role, crashed>>
    /\ UNCHANGED <<workflowVars, lifecycleVars>>

\* ListWorkflows: r.mu.RLock(); names := make([]string, 0, len(r.workflows))
ListWorkflowsRLock(p) ==
    /\ ~crashed
    /\ pc[p] = "list_rlock"
    /\ CanRLock(mu)
    /\ mu' = RLock(mu, p)
    /\ ret' = [ret EXCEPT ![p].names = <<>>]
    /\ pc' = [pc EXCEPT ![p] = "list_range"]
    /\ UNCHANGED <<workflows, call, todo, role, crashed>>
    /\ UNCHANGED <<workflowVars, lifecycleVars>>

\* ListWorkflows: one round of for name := range r.workflows, which yields
\* the names in an order the runtime picks, or the end of the loop.
ListWorkflowsRange(p) ==
    /\ ~crashed
    /\ pc[p] = "list_range"
    /\ IF DOMAIN workflows \subseteq Range(ret[p].names)
       THEN /\ pc' = [pc EXCEPT ![p] = "list_runlock"]
            /\ ret' = ret
       ELSE /\ \E name \in DOMAIN workflows \ Range(ret[p].names) :
                  ret' = [ret EXCEPT ![p].names = Append(@, name)]
            /\ pc' = pc
    /\ UNCHANGED <<workflows, mu, call, todo, role, crashed>>
    /\ UNCHANGED <<workflowVars, lifecycleVars>>

\* ListWorkflows: return names, with the deferred r.mu.RUnlock()
ListWorkflowsRUnlock(p) ==
    /\ ~crashed
    /\ pc[p] = "list_runlock"
    /\ mu' = RUnlock(mu, p)
    /\ pc' = [pc EXCEPT ![p] = "idle"]
    /\ UNCHANGED <<workflows, call, ret, todo, role, crashed>>
    /\ UNCHANGED <<workflowVars, lifecycleVars>>

\* The goroutines that are writing the map.
Writing == {q \in Procs : pc[q] \in {"add_insert", "rm_delete"}}

\* The map as a read sees it that is not ordered with the write of q: as
\* it is before the write or as it is after.
Torn(q) ==
    {workflows,
     IF pc[q] = "add_insert" THEN Insert(workflows, Name(call[q].wf), call[q].wf)
     ELSE Delete(workflows, call[q].name)}

\* What wf, ok := r.workflows[name] can yield: with no write going on the
\* entry of the map, with a write going on either side of the write.
Reads(name) ==
    {Lookup(workflows, name)} \cup {Lookup(m, name) : m \in UNION {Torn(q) : q \in Writing}}

\* Workflow: the lookup, which takes no lock, and the return.  While
\* another goroutine writes the map the runtime may also end the program
\* ("concurrent map read and map write").
WorkflowRead(p) ==
    /\ ~crashed
    /\ pc[p] = "wf_read"
    /\ \/ /\ \E r \in Reads(call[p].name) :
                ret' = [ret EXCEPT ![p].wf = r.wf,
                                   ![p].err = IF r.ok THEN "nil" ELSE ErrNotFound]
          /\ pc' = [pc EXCEPT ![p] = "idle"]
          /\ crashed' = crashed
       \/ /\ Writing # {}
          /\ crashed' = TRUE
          /\ UNCHANGED <<pc, ret>>
    /\ UNCHANGED <<workflows, mu, call, todo, role>>
    /\ UNCHANGED <<workflowVars, lifecycleVars>>

\* The workflow the Registry specifications leave alone.
IdleWorkflow ==
    /\ definition = Constrained
    /\ marking = NewMarking(<<"start">>)
    /\ defListeners = NoListeners
    /\ mgrListeners = NoListeners
    /\ listeners = NoListeners
    /\ manager = "nil"
    /\ context = NoContext
    /\ last = NoCall

\* TestRegistry_ConcurrentAccess: the workflow added before the goroutines
\* start, and the goroutines with their loops.
InitRegistry ==
    /\ IdleWorkflow
    /\ NoLifecycle
    /\ out = NoOut
    /\ workflows = Insert(NewRegistry, BaseName, createTestWorkflow(BaseName, 0))
    /\ mu = Unlocked
    /\ pc = [p \in Procs |-> "idle"]
    /\ call = [p \in Procs |-> NoArgs]
    /\ ret = [p \in Procs |-> NoRet]
    /\ role \in [Procs -> Roles]
    /\ todo = [p \in Procs |-> Program(role[p], p)]
    /\ crashed = FALSE

NextRegistry ==
    \/ \E p \in Procs : Begin(p)
    \/ \E p \in Procs : AddWorkflowLock(p)
    \/ \E p \in Procs : AddWorkflowCheck(p)
    \/ \E p \in Procs : AddWorkflowInsert(p)
    \/ \E p \in Procs : AddWorkflowUnlock(p)
    \/ \E p \in Procs : RemoveWorkflowLock(p)
    \/ \E p \in Procs : RemoveWorkflowCheck(p)
    \/ \E p \in Procs : RemoveWorkflowDelete(p)
    \/ \E p \in Procs : RemoveWorkflowUnlock(p)
    \/ \E p \in Procs : HasWorkflowRLock(p)
    \/ \E p \in Procs : HasWorkflowRead(p)
    \/ \E p \in Procs : HasWorkflowRUnlock(p)
    \/ \E p \in Procs : ListWorkflowsRLock(p)
    \/ \E p \in Procs : ListWorkflowsRange(p)
    \/ \E p \in Procs : ListWorkflowsRUnlock(p)
    \/ \E p \in Procs : WorkflowRead(p)

\* Goroutines that call the Registry at the same time.
SpecRegistry == InitRegistry /\ [][NextRegistry]_vars

\* NewRegistry, then the calls of one goroutine.
InitRegistrySeq ==
    /\ IdleWorkflow
    /\ NoRegistry
    /\ NoLifecycle
    /\ out = NoOut

NextRegistrySeq ==
    \/ \E p \in Procs : BeginAny(p)
    \/ \E p \in Procs : AddWorkflowLock(p)
    \/ \E p \in Procs : AddWorkflowCheck(p)
    \/ \E p \in Procs : AddWorkflowInsert(p)
    \/ \E p \in Procs : AddWorkflowUnlock(p)
    \/ \E p \in Procs : RemoveWorkflowLock(p)
    \/ \E p \in Procs : RemoveWorkflowCheck(p)
    \/ \E p \in Procs : RemoveWorkflowDelete(p)
    \/ \E p \in Procs : RemoveWorkflowUnlock(p)
    \/ \E p \in Procs : HasWorkflowRLock(p)
    \/ \E p \in Procs : HasWorkflowRead(p)
    \/ \E p \in Procs : HasWorkflowRUnlock(p)
    \/ \E p \in Procs : ListWorkflowsRLock(p)
    \/ \E p \in Procs : ListWorkflowsRange(p)
    \/ \E p \in Procs : ListWorkflowsRUnlock(p)
    \/ \E p \in Procs : WorkflowRead(p)

\* One goroutine that makes any calls, one after the other.
SpecRegistrySeq == InitRegistrySeq /\ [][NextRegistrySeq]_vars

(***************************************************************************)
(* The constructors as calls.  The call and its arguments are drawn in the *)
(* initial state; the action is the call, which records its result.        *)
(***************************************************************************)
\* NewTransition(name, from, to)
CallNewTransition ==
    /\ out.op = "NewTransition"
    /\ ~out.returned
    /\ \E err \in {NewTransition(out.args[1], out.args[2], out.args[3])} :
          out' = [out EXCEPT !.returned = TRUE, !.err = err,
                             !.value = IF err = Nil
                                       THEN T(out.args[1], out.args[2], out.args[3], <<>>)
                                       ELSE T("", <<>>, <<>>, <<>>)]
    /\ UNCHANGED <<workflowVars, registryVars, heap, initialPlace, storage, other>>

\* MustNewTransition(name, from, to): panic(err) when NewTransition fails.
CallMustNewTransition ==
    /\ out.op = "MustNewTransition"
    /\ ~out.returned
    /\ \E err \in {NewTransition(out.args[1], out.args[2], out.args[3])} :
          out' = [out EXCEPT !.returned = (err = Nil), !.panic = err,
                             !.value = IF err = Nil
                                       THEN T(out.args[1], out.args[2], out.args[3], <<>>)
                                       ELSE T("", <<>>, <<>>, <<>>)]
    /\ UNCHANGED <<workflowVars, registryVars, heap, initialPlace, storage, other>>

\* NewDefinition(places, transitions)
CallNewDefinition ==
    /\ out.op = "NewDefinition"
    /\ ~out.returned
    /\ out' = [out EXCEPT !.returned = TRUE,
                          !.err = NewDefinition(out.args[1], out.args[2])]
    /\ UNCHANGED <<workflowVars, registryVars, heap, initialPlace, storage, other>>

\* The transitions a caller hands to NewDefinition: values NewTransition
\* returned, named by their position in the list.
Built(i) ==
    {t \in {T(<<"t", i>>, from, to, <<>>) : from \in PlaceLists, to \in PlaceLists} :
        NewTransition(t.name, t.from, t.to) = Nil}

\* A caller is about to call a constructor.
InitBuild ==
    /\ IdleWorkflow
    /\ NoRegistry
    /\ NoLifecycle
    /\ \/ \E op \in {"NewTransition", "MustNewTransition"} :
          \E name \in {"", "t"}, from \in PlaceLists, to \in PlaceLists :
             out = [NoOut EXCEPT !.op = op, !.args = <<name, from, to>>]
       \/ \E places \in PlaceLists :
          \E transitions \in {<<>>} \cup {<<t>> : t \in Built(1)}
                             \cup {<<t, u>> : t \in Built(1), u \in Built(2)} :
             out = [NoOut EXCEPT !.op = "NewDefinition", !.args = <<places, transitions>>]

NextBuild ==
    \/ CallNewTransition
    \/ CallMustNewTransition
    \/ CallNewDefinition

\* The constructors of Transition and Definition.
SpecBuild == InitBuild /\ [][NextBuild]_vars

(***************************************************************************)
(* NewWorkflow, the diagram and the Manager.  The workflow the calls are   *)
(* made on is the receiver; other is a second Workflow of the program: the *)
(* one the receiver replaced or the one LoadWorkflow returned.             *)
(***************************************************************************)
\* The receiver as a value.
This ==
    [initialPlace |-> initialPlace, marking |-> marking, listeners |-> listeners,
     context |-> context, isNil |-> FALSE, manager |-> manager]

\* NewWorkflow(name, definition, initialPlace) with the Definition of the
\* receiver or nil.  The workflow it returns is the receiver from then on;
\* the program keeps the former receiver as its other Workflow.
CallNewWorkflow ==
    \E name \in {"", "workflow"}, def \in {NilDefinition, definition},
       place \in Range(definition.Places) \cup {Undeclared} :
    \E err \in {NewWorkflow(name, def, place)} :
    \E w \in {[initialPlace |-> place, marking |-> NewMarking(<<place>>),
               listeners |-> NoListeners, context |-> NoContext, isNil |-> FALSE,
               manager |-> "nil"]} :
        /\ out' = [NoOut EXCEPT !.op = "NewWorkflow", !.args = <<name, def, place>>,
                                !.returned = TRUE, !.err = err,
                                !.value = IF err = Nil THEN w ELSE NoWorkflow]
        /\ IF err = Nil
           THEN /\ marking' = w.marking
                /\ initialPlace' = w.initialPlace
                /\ listeners' = w.listeners
                /\ context' = w.context
                /\ manager' = w.manager
                /\ other' = This
           ELSE UNCHANGED <<marking, initialPlace, listeners, context, manager, other>>
        /\ last' = NoCall
        /\ UNCHANGED <<definition, defListeners, mgrListeners, storage, heap, registryVars>>

\* The caller turns to the other Workflow.
Switch ==
    /\ other # NoWorkflow
    /\ marking' = other.marking
    /\ initialPlace' = other.initialPlace
    /\ listeners' = other.listeners
    /\ context' = other.context
    /\ manager' = other.manager
    /\ other' = This
    /\ last' = NoCall
    /\ UNCHANGED <<definition, defListeners, mgrListeners, storage, out, heap, registryVars>>

\* Workflow.GenerateMermaidDiagram; args is what the caller can read of the
\* receiver: Definition(), CurrentPlaces(), InitialPlace().
Diagram ==
    /\ out' = [NoOut EXCEPT !.op = "Diagram",
                            !.args = <<definition, Places(marking), initialPlace>>,
                            !.returned = TRUE, !.value = GenerateMermaidDiagram(Self)]
    /\ UNCHANGED <<workflowVars, registryVars, heap, initialPlace, storage, other>>

\* Manager.SaveWorkflow(id, wf) with a Storage that keeps what it is given.
SaveWorkflow ==
    /\ storage' = [saved |-> TRUE, places |-> Places(marking), context |-> context,
                   isNil |-> FALSE, by |-> "SaveWorkflow", initialPlace |-> initialPlace]
    /\ UNCHANGED <<workflowVars, registryVars, heap, initialPlace, other, out>>

\* Storage.SaveState(id, places, context) called by the program itself.
SaveState ==
    /\ \E places \in {<<>>, <<definition.Places[1]>>, <<Undeclared>>}, isNil \in BOOLEAN :
          storage' = [saved |-> TRUE, places |-> places, context |-> NoContext,
                      isNil |-> isNil, by |-> "SaveState", initialPlace |-> ""]
    /\ UNCHANGED <<workflowVars, registryVars, heap, initialPlace, other, out>>

\* Manager.LoadWorkflow(id, definition) with the Definition of the receiver
\* or nil.  args is the state of the Storage and whether it was read.
LoadWorkflow ==
    \E def \in {NilDefinition, definition} :
        \/ /\ Lookup(workflows, BaseName).ok
           /\ out' = [NoOut EXCEPT !.op = "LoadWorkflow", !.args = <<storage, FALSE>>,
                                   !.returned = TRUE, !.value = other]
           /\ UNCHANGED <<workflowVars, registryVars, heap, initialPlace, storage, other>>
        \/ /\ ~Lookup(workflows, BaseName).ok
           /\ ~storage.saved
           /\ out' = [NoOut EXCEPT !.op = "LoadWorkflow", !.args = <<storage, TRUE>>,
                                   !.returned = TRUE, !.value = NoWorkflow,
                                   !.err = Errorf("failed to load workflow state: %w",
                                                  <<"workflow not found">>)]
           /\ UNCHANGED <<workflowVars, registryVars, heap, initialPlace, storage, other>>
        \/ /\ ~Lookup(workflows, BaseName).ok
           /\ storage.saved
           /\ Len(storage.places) = 0
           /\ out' = [NoOut EXCEPT !.op = "LoadWorkflow", !.args = <<storage, TRUE>>,
                                   !.panic = Errorf("index out of range [0] with length 0",
                                                    <<>>)]
           /\ UNCHANGED <<workflowVars, registryVars, heap, initialPlace, storage, other>>
        \/ /\ ~Lookup(workflows, BaseName).ok
           /\ storage.saved
           /\ Len(storage.places) > 0
           /\ NewWorkflow("workflow", def, storage.places[1]) # Nil
           /\ out' = [NoOut EXCEPT !.op = "LoadWorkflow", !.args = <<storage, TRUE>>,
                                   !.returned = TRUE, !.value = NoWorkflow,
                                   !.err = Errorf("failed to create workflow: %w",
                                                  <<NewWorkflow("workflow", def,
                                                                storage.places[1])>>)]
           /\ UNCHANGED <<workflowVars, registryVars, heap, initialPlace, storage, other>>
        \/ /\ ~Lookup(workflows, BaseName).ok
           /\ storage.saved
           /\ Len(storage.places) > 0
           /\ NewWorkflow("workflow", def, storage.places[1]) = Nil
           /\ other' = [initialPlace |-> storage.places[1],
                        marking |-> SetPlaces(NewMarking(<<storage.places[1]>>),
                                              storage.places),
                        listeners |-> NoListeners, context |-> storage.context,
                        isNil |-> storage.isNil, manager |-> "manager"]
           /\ out' = [NoOut EXCEPT !.op = "LoadWorkflow", !.args = <<storage, TRUE>>,
                                   !.returned = TRUE, !.value = other']
           /\ workflows' = Insert(workflows, BaseName, createTestWorkflow(BaseName, 0))
           /\ UNCHANGED <<workflowVars, mu, pc, call, ret, todo, role, crashed,
                          initialPlace, storage, heap>>

\* NewWorkflow has returned the receiver; NewRegistry and NewManager have
\* returned.
InitManager ==
    /\ definition \in Definitions \cup {Tangled}
    /\ \E place \in Range(definition.Places) :
          /\ NewWorkflow("workflow", definition, place) = Nil
          /\ marking = NewMarking(<<place>>)
          /\ initialPlace = place
    /\ defListeners = NoListeners
    /\ mgrListeners = NoListeners
    /\ listeners = NoListeners
    /\ manager = "nil"
    /\ context = NoContext
    /\ last = NoCall
    /\ NoRegistry
    /\ storage = NoState
    /\ other = NoWorkflow
    /\ heap = NoHeap
    /\ out = NoOut

\* The program of TestManager_LoadWorkflow: a three-place workflow.
InitStored == InitManager /\ definition = Linear

NextManager ==
    \/ Apply
    \/ SetContext
    \/ SaveWorkflow
    \/ SaveState
    \/ LoadWorkflow

\* One workflow, its Manager and the Storage behind it.
SpecManager == InitStored /\ [][NextManager]_vars

NextShared ==
    \/ CallNewWorkflow
    \/ Switch
    \/ Apply
    \/ SetContext
    \/ Diagram

\* Two workflows of one Definition and their diagrams.
SpecShared == InitManager /\ [][NextShared]_vars

(***************************************************************************)
(* Apply called by several goroutines on one Workflow without a lock       *)
(* around the calls.  A goroutine is between the statements of             *)
(* ApplyWithContext that read or write the marking: the guard check, the   *)
(* copy of the marking with the re-scan, and SetPlaces.  The workflow has  *)
(* no listeners, so that the events reach no callback.                     *)
(***************************************************************************)
NoApply ==
    [op |-> "none", to |-> <<>>, seen |-> <<>>, currentPlaces |-> <<>>, sel |-> 0,
     err |-> Nil]

\* Mutant of Enter: the call waits until no other call is under way.
Enter_Locked(g) ==
    /\ pc[g] = "idle"
    /\ \A h \in Procs \ {g} : pc[h] \in {"idle", "done"}

\* The entry of ApplyWithContext: the call starts whatever the other
\* goroutines are doing.
Enter(g) == pc[g] = "idle"

\* The validation of the target places and CanWithContext.
ApplyCan(g) ==
    /\ Enter(g)
    /\ \E targetPlaces \in Targets(definition) :
       \E cb \in AnswersFor(Self, targetPlaces) :
       \E can \in {CanWithContext(Self, targetPlaces, cb, <<>>)} :
          /\ call' = [call EXCEPT ![g] = [NoApply EXCEPT !.op = "Apply",
                                                         !.to = targetPlaces,
                                                         !.seen = Places(marking),
                                                         !.err = can.err]]
          /\ pc' = [pc EXCEPT ![g] = IF can.err = Nil THEN "scan" ELSE "done"]
    /\ UNCHANGED <<workflowVars, lifecycleVars, workflows, mu, ret, todo, role, crashed>>

\* currentPlaces := w.marking.Places() and the re-scan of the transitions.
ApplyScan(g) ==
    /\ pc[g] = "scan"
    /\ \E ti \in {Rescan(definition, 1, Places(marking), call[g].to)} :
          /\ call' = [call EXCEPT ![g].currentPlaces = Places(marking),
                                  ![g].sel = ti,
                                  ![g].err = IF ti = 0 THEN ErrInvalidTransition ELSE Nil]
          /\ pc' = [pc EXCEPT ![g] = IF ti = 0 THEN "done" ELSE "set"]
    /\ UNCHANGED <<workflowVars, lifecycleVars, workflows, mu, ret, todo, role, crashed>>

\* newPlaces, built from the copy, and w.marking.SetPlaces(newPlaces).
ApplySet(g) ==
    /\ pc[g] = "set"
    /\ marking' = Mutated([Self EXCEPT !.marking = call[g].currentPlaces],
                          call[g].sel, call[g].to)
    /\ pc' = [pc EXCEPT ![g] = "done"]
    /\ UNCHANGED <<definition, defListeners, mgrListeners, listeners, manager, context,
                   last, lifecycleVars, workflows, mu, call, ret, todo, role, crashed>>

\* A workflow at its initial place and goroutines that have not called yet.
InitRace ==
    /\ definition \in {Linear, Tangled}
    /\ \E place \in Range(definition.Places) :
          /\ marking = NewMarking(<<place>>)
          /\ initialPlace = place
    /\ defListeners = NoListeners
    /\ mgrListeners = NoListeners
    /\ listeners = NoListeners
    /\ manager = "nil"
    /\ context = NoContext
    /\ last = NoCall
    /\ workflows = NewRegistry
    /\ mu = Unlocked
    /\ pc = [p \in Procs |-> "idle"]
    /\ call = [p \in Procs |-> NoApply]
    /\ ret = [p \in Procs |-> NoRet]
    /\ todo = [p \in Procs |-> <<>>]
    /\ role = [p \in Procs |-> "none"]
    /\ crashed = FALSE
    /\ storage = NoState
    /\ other = NoWorkflow
    /\ heap = NoHeap
    /\ out = NoOut

NextRace ==
    \E g \in Procs :
        \/ ApplyCan(g)
        \/ ApplyScan(g)
        \/ ApplySet(g)

\* One Apply call from each goroutine, interleaved.
SpecRace == InitRace /\ [][NextRace]_vars

\* NewWorkflow has returned two workflows of one Definition, which has no
\* listener yet.
InitInstances ==
    /\ definition = Linear
    /\ marking = NewMarking(<<definition.Places[1]>>)
    /\ initialPlace = definition.Places[1]
    /\ defListeners = NoListeners
    /\ mgrListeners = NoListeners
    /\ listeners = NoListeners
    /\ manager = "nil"
    /\ context = NoContext
    /\ last = NoCall
    /\ NoRegistry
    /\ storage = NoState
    /\ other = This
    /\ heap = NoHeap
    /\ out = NoOut

NextInstances ==
    \/ Switch
    \/ DefAddEventListener(MaxListenersAny)
    \/ DefAddGuardEventListener(MaxListenersAny)
    \/ AddEventListener(MaxListenersAny)
    \/ Apply

\* Two workflows of one Definition, with listeners on the Definition and on
\* the workflows.
SpecInstances == InitInstances /\ [][NextInstances]_vars

(***************************************************************************)
(* Manager.CreateWorkflow and Manager.DeleteWorkflow, for the id           *)
(* "workflow".  value is the workflow CreateWorkflow returns: the identity *)
(* of the pointer and the fields of the Workflow.                          *)
(***************************************************************************)
\* A pointer no instance the Registry holds has.
Fresh == IF Exists(workflows, BaseName) THEN workflows[BaseName].id + 1 ELSE 1

\* m.registry.AddWorkflow(wf), whose error CreateWorkflow drops.
Added(m, wf) == IF Exists(m, Name(wf)) THEN m ELSE Insert(m, Name(wf), wf)

\* Manager.CreateWorkflow; stored says whether Storage.SaveState returns nil.
CreateWorkflow ==
    \E name \in {"", "workflow"}, def \in {NilDefinition, definition},
       place \in Range(definition.Places) \cup {Undeclared}, stored \in BOOLEAN :
    \E err \in {NewWorkflow(name, def, place)} :
    \E wf \in {[instance |-> createTestWorkflow(BaseName, Fresh),
                workflow |-> [initialPlace |-> place, marking |-> NewMarking(<<place>>),
                              listeners |-> NoListeners, context |-> NoContext,
                              isNil |-> FALSE, manager |-> "manager"]]} :
        \/ /\ err # Nil
           /\ out' = [NoOut EXCEPT !.op = "CreateWorkflow", !.args = <<name, def, place>>,
                                   !.returned = TRUE,
                                   !.err = Errorf("failed to create workflow: %w", <<err>>)]
           /\ UNCHANGED <<workflowVars, registryVars, heap, initialPlace, storage, other>>
        \/ /\ err = Nil
           /\ ~stored
           /\ out' = [NoOut EXCEPT !.op = "CreateWorkflow", !.args = <<name, def, place>>,
                                   !.returned = TRUE,
                                   !.err = Errorf("failed to save initial state: %w",
                                                  <<"storage">>)]
           /\ UNCHANGED <<workflowVars, registryVars, heap, initialPlace, storage, other>>
        \/ /\ err = Nil
           /\ stored
           /\ storage' = [saved |-> TRUE, places |-> Places(wf.workflow.marking),
                          context |-> wf.workflow.context, isNil |-> FALSE,
                          by |-> "CreateWorkflow", initialPlace |-> place]
           /\ workflows' = Added(workflows, wf.instance)
           /\ other' = IF Exists(workflows, BaseName) THEN other ELSE wf.workflow
           /\ out' = [NoOut EXCEPT !.op = "CreateWorkflow", !.args = <<name, def, place>>,
                                   !.returned = TRUE, !.value = wf]
           /\ UNCHANGED <<workflowVars, mu, pc, call, ret, todo, role, crashed,
                          initialPlace, heap>>

\* Manager.DeleteWorkflow with a Storage that forgets the id.
DeleteWorkflow ==
    /\ workflows' = Delete(workflows, BaseName)
    /\ storage' = NoState
    /\ other' = NoWorkflow
    /\ out' = [NoOut EXCEPT !.op = "DeleteWorkflow", !.returned = TRUE]
    /\ UNCHANGED <<workflowVars, mu, pc, call, ret, todo, role, crashed, initialPlace, heap>>

NextCreate ==
    \/ CreateWorkflow
    \/ DeleteWorkflow
    \/ SaveState
    \/ LoadWorkflow

\* The Manager creates, loads and deletes the workflow of one id.
SpecCreate == InitStored /\ [][NextCreate]_vars

(***************************************************************************)
(* RemoveEventListener of the Workflow, the Definition and the Manager.    *)
(***************************************************************************)
\* The address of a variable of the function: RemoveEventListener compares
\* &l, of the loop variable, with &listener, of its parameter.
AddressOf(variable) == <<"&", variable>>

\* The loop over the listeners of the event type, from position i.
RECURSIVE RemoveLoop(_, _)
RemoveLoop(ls, i) ==
    IF i > Len(ls) THEN ls
    ELSE IF AddressOf("l") = AddressOf("listener")
         THEN SubSeq(ls, 1, i - 1) \o SubSeq(ls, i + 1, Len(ls))
         ELSE RemoveLoop(ls, i + 1)

\* The listener table of a tier.
TableOf(tier) ==
    IF tier = "definition" THEN defListeners
    ELSE IF tier = "manager" THEN mgrListeners
    ELSE listeners

\* RemoveEventListener(eventType, l) on the owner of a tier, for the listener
\* l the owner holds at position k of the event type; value is the list
\* before the call.
CallRemoveEventListener(tier) ==
    \E eventType \in EventTypes :
    \E k \in DOMAIN TableOf(tier)[eventType] :
    \E tbl \in {[TableOf(tier) EXCEPT ![eventType] = RemoveLoop(@, 1)]} :
        /\ defListeners' = IF tier = "definition" THEN tbl ELSE defListeners
        /\ mgrListeners' = IF tier = "manager" THEN tbl ELSE mgrListeners
        /\ listeners' = IF tier = "workflow" THEN tbl ELSE listeners
        /\ out' = [NoOut EXCEPT !.op = "RemoveEventListener",
                                !.args = <<tier, eventType, k>>,
                                !.returned = TRUE,
                                !.value = TableOf(tier)[eventType]]
        /\ last' = NoCall
        /\ UNCHANGED <<definition, marking, manager, context, registryVars,
                       initialPlace, storage, other, heap>>

NextRemove ==
    \/ DefAddEventListener(MaxListeners)
    \/ DefAddGuardEventListener(MaxListeners)
    \/ MgrAddEventListener(MaxListeners)
    \/ MgrAddGuardEventListener(MaxListeners)
    \/ AddEventListener(MaxListeners)
    \/ AddGuardEventListener(MaxListeners)
    \/ SetManager
    \/ CallRemoveEventListener("definition")
    \/ CallRemoveEventListener("manager")
    \/ CallRemoveEventListener("workflow")
    \/ Apply

\* Listeners are registered and removed between the calls.
SpecRemove == InitDispatch /\ [][NextRemove]_vars

(***************************************************************************)
(* Slices the calling program shares with a Marking or a Definition.  The  *)
(* program holds one []Place variable and one []Transition variable; it    *)
(* passes them to the constructors and setters, assigns the results of the *)
(* getters to them and writes into their elements.                         *)
(***************************************************************************)
Roots(h) == {h.m, h.dPlaces, h.dTransitions, h.places, h.transitions}

\* The first slice variable that refers to the array of slice variable s.
First(h, s) == Slices[CHOOSE i \in DOMAIN Slices :
                         /\ h[Slices[i]] = h[s]
                         /\ \A j \in 1..(i - 1) : h[Slices[j]] # h[s]]

\* Arrays no slice refers to are collected, and the others are named.
Collect(h) ==
    [h EXCEPT !.arrays = [a \in Addresses |->
                             IF a # "fresh" /\ First(h, a) = a THEN h.arrays[h[a]]
                             ELSE <<>>],
              !.m = First(h, "m"), !.dPlaces = First(h, "dPlaces"),
              !.dTransitions = First(h, "dTransitions"), !.places = First(h, "places"),
              !.transitions = First(h, "transitions")]

\* Mutant of MakeCopy: the slice itself is handed on.
MakeCopy_Alias(h, src) == [heap |-> h, slice |-> src]

\* placesCopy := make([]Place, len(places)); copy(placesCopy, places)
MakeCopy(h, src) ==
    [heap |-> [h EXCEPT !.arrays[CHOOSE a \in Addresses : a \notin Roots(h)] = h.arrays[src]],
     slice |-> CHOOSE a \in Addresses : a \notin Roots(h)]

\* &Definition{Places: places, Transitions: transitions}
DefinitionOf(h, places, transitions) ==
    [h EXCEPT !.dPlaces = places, !.dTransitions = transitions]

\* marking.HasPlace
HasPlace(m, place) == \E i \in DOMAIN m : m[i] = place

\* A place and a transition the program writes into its slices.
Modified == "modified"

Rogue == T("rogue", <<Modified>>, <<Modified>>, <<>>)

\* The Workflow reads its marking and its Definition through their slices.
Follow ==
    /\ marking' = heap'.arrays[heap'.m]
    /\ definition' = [definition EXCEPT !.Places = heap'.arrays[heap'.dPlaces],
                                        !.Transitions = heap'.arrays[heap'.dTransitions]]
    /\ UNCHANGED <<defListeners, mgrListeners, listeners, manager, context, last>>
    /\ UNCHANGED <<registryVars, initialPlace, storage, other, out>>

\* places = w.Marking().Places()
CallPlaces ==
    \E r \in {MakeCopy(heap, heap.m)} :
        /\ heap' = Collect([r.heap EXCEPT !.places = r.slice, !.from = {"Places"},
                                          !.op = "Places"])
        /\ Follow

\* places = w.CurrentPlaces()
CallCurrentPlaces ==
    \E r \in {MakeCopy(heap, heap.m)} :
        /\ heap' = Collect([r.heap EXCEPT !.places = r.slice, !.from = {"Places"},
                                          !.op = "CurrentPlaces"])
        /\ Follow

\* w.Marking().SetPlaces(places)
CallSetPlaces ==
    \E r \in {MakeCopy(heap, heap.places)} :
        /\ heap' = Collect([r.heap EXCEPT !.m = r.slice, !.from = @ \cup {"SetPlaces"},
                                          !.op = "SetPlaces"])
        /\ Follow

\* w.SetMarking(NewMarking(places))
CallSetMarking ==
    \E r \in {MakeCopy(heap, heap.places)} :
        /\ heap' = Collect([r.heap EXCEPT !.m = r.slice, !.from = @ \cup {"NewMarking"},
                                          !.op = "NewMarking"])
        /\ Follow

\* places = w.Definition().AllPlaces()
CallAllPlaces ==
    \E r \in {MakeCopy(heap, heap.dPlaces)} :
        /\ heap' = Collect([r.heap EXCEPT !.places = r.slice, !.from = {"AllPlaces"},
                                          !.op = "AllPlaces"])
        /\ Follow

\* transitions = w.Definition().AllTransitions()
CallAllTransitions ==
    \E r \in {MakeCopy(heap, heap.dTransitions)} :
        /\ heap' = Collect([r.heap EXCEPT !.transitions = r.slice, !.op = "AllTransitions"])
        /\ Follow

\* places[0] = "modified"
StorePlace ==
    \E i \in DOMAIN heap.arrays[heap.places] \cap {1} :
        /\ heap.arrays[heap.places][i] # Modified
        /\ heap' = [heap EXCEPT !.arrays[heap.places][i] = Modified, !.op = "StorePlace"]
        /\ Follow

\* transitions[0] = *rogue
StoreTransition ==
    \E i \in DOMAIN heap.arrays[heap.transitions] \cap {1} :
        /\ heap.arrays[heap.transitions][i] # Rogue
        /\ heap' = [heap EXCEPT !.arrays[heap.transitions][i] = Rogue,
                                !.op = "StoreTransition"]
        /\ Follow

\* The program has built places and transitions, and NewDefinition(places,
\* transitions) and NewWorkflow have returned.
InitAlias ==
    /\ definition \in Definitions
    /\ \E place \in Range(definition.Places) :
          /\ NewWorkflow("workflow", definition, place) = Nil
          /\ marking = NewMarking(<<place>>)
          /\ initialPlace = place
          /\ heap = Collect(DefinitionOf(
                        [NoHeap EXCEPT !.arrays["places"] = definition.Places,
                                       !.arrays["transitions"] = definition.Transitions,
                                       !.arrays["m"] = marking,
                                       !.m = "m", !.places = "places",
                                       !.transitions = "transitions",
                                       !.from = {"NewDefinition"}],
                        "places", "transitions"))
    /\ defListeners = NoListeners
    /\ mgrListeners = NoListeners
    /\ listeners = NoListeners
    /\ manager = "nil"
    /\ context = NoContext
    /\ last = NoCall
    /\ NoRegistry
    /\ storage = NoState
    /\ other = NoWorkflow
    /\ out = NoOut

NextAlias ==
    \/ CallPlaces
    \/ CallCurrentPlaces
    \/ CallSetPlaces
    \/ CallSetMarking
    \/ CallAllPlaces
    \/ CallAllTransitions
    \/ StorePlace
    \/ StoreTransition

\* The slices of a Marking and of a Definition.
SpecAlias == InitAlias /\ [][NextAlias]_vars

(***************************************************************************)
(* Vocabulary of the properties.                                           *)
(***************************************************************************)
IsCall == last.op \in {"Can", "Apply"}

\* The positions of the log at which a listener of event ev ran.
Ran(ev) == {k \in DOMAIN last.trace : last.trace[k].ev = ev}

\* The places of s that are not from places, in their order.
Without(s, from) == SelectSeq(s, LAMBDA p : p \notin Range(from))

\* The listeners of a table that the dispatch of ev can call, as log sources.
Callable(tbl, tier, ev) ==
    LET idxs == SelectSeq([i \in DOMAIN tbl[ev] |-> i],
                          LAMBDA i : tbl[ev][i] = (IF ev = EventGuard
                                                   THEN "GuardEventListener"
                                                   ELSE "EventListener"))
    IN  [k \in DOMAIN idxs |-> [ev |-> ev, tier |-> tier, idx |-> idxs[k]]]

\* The dispatch order of section 4.5: Definition, Manager if attached, Workflow.
DispatchOrder(ev) ==
    Callable(defListeners, "definition", ev)
    \o (IF manager = "nil" THEN <<>> ELSE Callable(mgrListeners, "manager", ev))
    \o Callable(listeners, "workflow", ev)

\* The listeners of ev that ran, in the order they ran.
RanOrder(ev) ==
    LET es == SelectSeq(last.trace, LAMBDA e : e.ev = ev)
    IN  [k \in DOMAIN es |-> SrcOf(es[k])]

IsPrefix(s, t) == Len(s) <= Len(t) /\ \A k \in DOMAIN s : s[k] = t[k]

HasAlwaysFail(i) ==
    i # 0 /\ \E j \in DOMAIN definition.Transitions[i].constraints :
                definition.Transitions[i].constraints[j] = "always_fail"

(***************************************************************************)
(* C1: after a successful Apply the marking, as a set, is the marking      *)
(* before the call minus the from places of the selected transition, plus  *)
(* the target places.                                                      *)
(***************************************************************************)
C1_ApplyMarking ==
    (last.op = "Apply" /\ last.err = Nil) =>
        /\ last.sel # 0
        /\ Range(marking) =
              (Range(last.pre) \ Range(definition.Transitions[last.sel].from))
              \cup Range(last.to)

\* A successful Apply that kept a marked place and removed another.
C1_Witness ==
    /\ last.op = "Apply" /\ last.err = Nil /\ last.sel # 0
    /\ Range(last.pre) \ Range(definition.Transitions[last.sel].from) # {}
    /\ Range(last.pre) # Range(marking)

(***************************************************************************)
(* C2: no place occurs more than once in the marking, in any state         *)
(* reachable by Apply calls.                                               *)
(***************************************************************************)
C2_NoDuplicatePlace == ~HasDuplicates(Places(marking))

(***************************************************************************)
(* C3: when a guard listener set the blocking flag to true and no guard    *)
(* listener returned an error, the call fails with ErrTransitionNotAllowed *)
(* and leaves the marking as it was, whatever later guard listeners do.    *)
(***************************************************************************)
C3_VetoStands ==
    (/\ IsCall
     /\ \E k \in Ran(EventGuard) : last.trace[k].block = "true"
     /\ \A k \in Ran(EventGuard) : ~last.trace[k].fails) =>
        /\ last.err = ErrTransitionNotAllowed
        /\ marking = last.pre

(***************************************************************************)
(* C4: a call that matches or selects a transition carrying a constraint   *)
(* that always returns an error does not return nil, runs no               *)
(* before_transition and no after_transition listener and leaves the       *)
(* marking as it was.                                                      *)
(***************************************************************************)
C4_FailingConstraintNeverApplied ==
    (IsCall /\ (HasAlwaysFail(last.matched) \/ HasAlwaysFail(last.sel))) =>
        /\ last.err # Nil
        /\ Ran(EventBeforeTransition) = {}
        /\ Ran(EventAfterTransition) = {}
        /\ marking = last.pre

\* An Apply matched such a transition although its other constraints passed
\* and guard, before and after listeners could have run.
C4_Witness ==
    /\ last.op = "Apply" /\ HasAlwaysFail(last.matched)
    /\ Len(last.trace) > 1
    /\ TotalListeners > 0

(***************************************************************************)
(* C5: in a guard check the constraints of the matched transition run in   *)
(* the order they were attached and before every guard listener; the first *)
(* constraint error ends the check: nothing runs after it and the call     *)
(* returns exactly that error.                                             *)
(***************************************************************************)
C5_ConstraintsFirst ==
    (IsCall /\ last.matched # 0) =>
        LET cs == definition.Transitions[last.matched].constraints
            n == Cardinality(Ran("constraint"))
        IN  /\ \A k \in Ran("constraint") : k <= Len(cs) /\ last.trace[k].idx = k
            /\ Len(cs) > 0 => 1 \in Ran("constraint")
            /\ \A k \in Ran("constraint") :
                  IF last.trace[k].fails
                  THEN /\ k = Len(last.trace)
                       /\ last.err = CallbackErr([ev |-> "constraint",
                                                  tier |-> "transition", idx |-> k])
                  ELSE k < Len(cs) => (k + 1) \in Ran("constraint")
            /\ Ran(EventGuard) # {} =>
                  /\ n = Len(cs)
                  /\ \A k \in Ran("constraint") : ~last.trace[k].fails

\* The second constraint failed after the first passed, and a guard
\* listener that would have run is registered.
C5_Witness ==
    /\ IsCall /\ last.matched # 0
    /\ Len(last.trace) = 2
    /\ last.trace[1].ev = "constraint" /\ ~last.trace[1].fails
    /\ last.trace[2].ev = "constraint" /\ last.trace[2].fails
    /\ Len(DispatchOrder(EventGuard)) > 0
    /\ Len(definition.Transitions[last.matched].constraints) = 2

(***************************************************************************)
(* C6: for every event type the first listener that returns an error ends  *)
(* the dispatch, no listener runs after it, and the call returns that      *)
(* error, also when the blocking flag was already set.                     *)
(***************************************************************************)
C6_FirstListenerErrorStops ==
    IsCall =>
        \A k \in DOMAIN last.trace :
            (last.trace[k].ev \in EventTypes /\ last.trace[k].fails) =>
                /\ k = Len(last.trace)
                /\ last.err = CallbackErr(SrcOf(last.trace[k]))

\* A listener returned an error while a later listener of the same event is
\* registered.
C6_Witness ==
    /\ IsCall /\ Len(last.trace) > 0
    /\ LET e == last.trace[Len(last.trace)]
       IN  /\ e.ev \in EventTypes /\ e.fails
           /\ Len(RanOrder(e.ev)) < Len(DispatchOrder(e.ev))

\* A guard listener returned an error after another one had set the flag.
C6_WitnessBlocking ==
    /\ IsCall /\ Len(last.trace) > 1
    /\ last.trace[Len(last.trace)].ev = EventGuard
    /\ last.trace[Len(last.trace)].fails
    /\ \E k \in Ran(EventGuard) : last.trace[k].block = "true"

(***************************************************************************)
(* C7: the listeners that run for an event are an initial part of: the     *)
(* Definition's listeners, then the Manager's if one is attached, then the *)
(* Workflow's, each tier in registration order.                            *)
(***************************************************************************)
C7_DispatchOrder ==
    IsCall => \A ev \in EventTypes : IsPrefix(RanOrder(ev), DispatchOrder(ev))

\* Two listeners of different tiers ran for one event.
C7_Witness ==
    /\ IsCall
    /\ \E ev \in EventTypes :
          /\ Len(RanOrder(ev)) = 2
          /\ RanOrder(ev)[1].tier # RanOrder(ev)[2].tier

\* Two listeners of one tier ran for one event.
C7_WitnessSameTier ==
    /\ IsCall
    /\ \E ev \in EventTypes :
          /\ Len(RanOrder(ev)) = 2
          /\ RanOrder(ev)[1].tier = RanOrder(ev)[2].tier

\* An event was dispatched with no Manager attached although the Manager
\* has a listener for it.
C7_WitnessNoManager ==
    /\ IsCall /\ manager = "nil"
    /\ \E ev \in EventTypes : Len(RanOrder(ev)) > 0 /\ Len(mgrListeners[ev]) > 0

(***************************************************************************)
(* C8: an Apply that fails before its mutation step leaves the marking as  *)
(* it was and runs no after_transition listener.                           *)
(***************************************************************************)
FailedBeforeMutation ==
    /\ last.op = "Apply"
    /\ \/ last.err \in {ErrInvalidPlace, ErrInvalidTransition, ErrTransitionNotAllowed}
       \/ /\ last.err.kind = "callback"
          /\ last.err.src.ev \in {"constraint", EventGuard, EventBeforeTransition}

C8_FailedApplyKeepsMarking ==
    FailedBeforeMutation => (marking = last.pre /\ Ran(EventAfterTransition) = {})

\* A before_transition listener failed an Apply that would have changed the
\* marking, and an after_transition listener is registered.
C8_Witness ==
    /\ FailedBeforeMutation
    /\ last.err.kind = "callback" /\ last.err.src.ev = EventBeforeTransition
    /\ Len(DispatchOrder(EventAfterTransition)) > 0
    /\ last.sel # 0
    /\ Without(last.pre, definition.Transitions[last.sel].from) \o last.to # last.pre

(***************************************************************************)
(* C9: when an after_transition listener returns an error, Apply returns   *)
(* that error, no further after_transition listener runs, and the marking  *)
(* is the new marking.                                                     *)
(***************************************************************************)
C9_AfterErrorKeepsNewMarking ==
    \A k \in Ran(EventAfterTransition) :
        last.trace[k].fails =>
            /\ last.op = "Apply"
            /\ last.err = CallbackErr(SrcOf(last.trace[k]))
            /\ k = Len(last.trace)
            /\ last.sel # 0
            /\ marking = Without(last.pre, definition.Transitions[last.sel].from)
                            \o last.to

\* The first of two after_transition listeners failed and the marking moved.
C9_Witness ==
    /\ last.op = "Apply" /\ last.err.kind = "callback"
    /\ last.err.src.ev = EventAfterTransition
    /\ Len(RanOrder(EventAfterTransition)) < Len(DispatchOrder(EventAfterTransition))
    /\ marking # last.pre

(***************************************************************************)
(* C10: EnabledTransitions returns, in Definition order, exactly the       *)
(* transitions whose from places are all marked, returns no error and      *)
(* leaves the marking as it was.                                           *)
(***************************************************************************)
C10_EnabledTransitions ==
    last.op = "EnabledTransitions" =>
        /\ \A k, l \in DOMAIN last.enabled : k < l => last.enabled[k] < last.enabled[l]
        /\ Range(last.enabled) =
              {i \in DOMAIN definition.Transitions :
                  Range(definition.Transitions[i].from) \subseteq Range(last.pre)}
        /\ last.err = Nil
        /\ marking = last.pre

\* A transition whose from places are marked in another order is returned.
C10_Witness ==
    /\ last.op = "EnabledTransitions"
    /\ \E k \in DOMAIN last.enabled :
          LET from == definition.Transitions[last.enabled[k]].from
          IN  /\ Len(from) > 1
              /\ \E a, b \in DOMAIN last.pre :
                    a < b /\ last.pre[a] = from[2] /\ last.pre[b] = from[1]

\* A transition with several from places is left out while one is marked.
C10_WitnessPartial ==
    /\ last.op = "EnabledTransitions"
    /\ \E i \in DOMAIN definition.Transitions :
          /\ i \notin Range(last.enabled)
          /\ Range(definition.Transitions[i].from) \cap Range(last.pre) # {}

(***************************************************************************)
(* Vocabulary of the properties about the target list.                     *)
(***************************************************************************)
NoConstraints ==
    \A i \in DOMAIN definition.Transitions : definition.Transitions[i].constraints = <<>>

Declared(to) == \A k \in DOMAIN to : to[k] \in Range(definition.Places)

\* The transitions whose from places are all in the marking m and whose to
\* list is exactly to.
EnabledTo(m, to) ==
    {i \in DOMAIN definition.Transitions :
        /\ Range(definition.Transitions[i].from) \subseteq Range(m)
        /\ definition.Transitions[i].to = to}

\* The transitions whose to list holds the places of to in another order.
Reordered(to) ==
    {i \in DOMAIN definition.Transitions :
        /\ definition.Transitions[i].to # to
        /\ Len(definition.Transitions[i].to) = Len(to)
        /\ Range(definition.Transitions[i].to) = Range(to)}

(***************************************************************************)
(* C11: with no constraint in the Definition and no listener registered,   *)
(* Can(to) returns nil exactly when a transition whose from places are all *)
(* marked has a to list equal to the target list, place by place; a target *)
(* list that is a reordering of a to list does not count as equal.         *)
(***************************************************************************)
C11_CanPositionalMatch ==
    (last.op = "Can" /\ NoConstraints /\ TotalListeners = 0) =>
        (last.err = Nil <=> EnabledTo(last.pre, last.to) # {})

\* Can was refused for a reordering of the to list of an enabled transition.
C11_Witness ==
    /\ last.op = "Can" /\ NoConstraints /\ TotalListeners = 0
    /\ last.err # Nil
    /\ \E i \in Reordered(last.to) :
          Range(definition.Transitions[i].from) \subseteq Range(last.pre)

\* Can was accepted for a to list of two places.
C11_WitnessAccepted ==
    /\ last.op = "Can" /\ NoConstraints /\ TotalListeners = 0
    /\ last.err = Nil /\ Len(last.to) = 2

(***************************************************************************)
(* C12: a call whose target list is not empty and names declared places    *)
(* only, while no transition with all its from places marked has that to   *)
(* list, fails with ErrTransitionNotAllowed, runs no callback and leaves   *)
(* the marking as it was.  (The empty target list is the case of C13.)     *)
(***************************************************************************)
C12_NoMatchNotAllowed ==
    (/\ IsCall /\ Len(last.to) > 0 /\ Declared(last.to)
     /\ EnabledTo(last.pre, last.to) = {}) =>
        /\ last.err = ErrTransitionNotAllowed
        /\ last.trace = <<>>
        /\ marking = last.pre

\* An Apply was refused because the from places of the one transition that
\* leads to the target are not marked.
C12_Witness ==
    /\ last.op = "Apply" /\ Len(last.to) > 0 /\ Declared(last.to)
    /\ EnabledTo(last.pre, last.to) = {}
    /\ \E i \in DOMAIN definition.Transitions : definition.Transitions[i].to = last.to

\* A Can was refused because no transition leads to the target.
C12_WitnessNoPath ==
    /\ last.op = "Can" /\ Len(last.to) > 0 /\ Declared(last.to)
    /\ \A i \in DOMAIN definition.Transitions : definition.Transitions[i].to # last.to

(***************************************************************************)
(* C13: a call with the empty target list fails with ErrInvalidTransition, *)
(* a call with a target list that is not empty and names an undeclared     *)
(* place fails with ErrInvalidPlace; either way no constraint and no       *)
(* listener runs and the marking is left as it was.                        *)
(***************************************************************************)
C13_EmptyOrUndeclared ==
    (IsCall /\ (Len(last.to) = 0 \/ ~Declared(last.to))) =>
        /\ last.err = IF Len(last.to) = 0 THEN ErrInvalidTransition ELSE ErrInvalidPlace
        /\ last.trace = <<>>
        /\ last.matched = 0
        /\ marking = last.pre

\* A Can named a declared and an undeclared place while listeners that a
\* guard check calls are registered.
C13_Witness ==
    /\ last.op = "Can" /\ Len(last.to) = 2 /\ ~Declared(last.to)
    /\ \E k \in DOMAIN last.to : last.to[k] \in Range(definition.Places)
    /\ Len(DispatchOrder(EventGuard)) > 0

\* An Apply got the empty target list.
C13_WitnessEmpty ==
    /\ last.op = "Apply" /\ Len(last.to) = 0
    /\ Len(DispatchOrder(EventBeforeTransition)) > 0

(***************************************************************************)
(* C14: a call whose target list is not empty and names declared places    *)
(* only, while no transition of the Definition has that to list, fails     *)
(* with ErrInvalidTransition.                                              *)
(***************************************************************************)
C14_NoShapeInvalidTransition ==
    (/\ IsCall /\ Len(last.to) > 0 /\ Declared(last.to)
     /\ \A i \in DOMAIN definition.Transitions : definition.Transitions[i].to # last.to) =>
        last.err = ErrInvalidTransition

(***************************************************************************)
(* C14 as amended: ErrInvalidTransition is what a call with the empty      *)
(* target list reports; a call whose target list is not empty and declared *)
(* and matched by no transition with all its from places marked reports    *)
(* ErrTransitionNotAllowed, not ErrInvalidTransition.                      *)
(***************************************************************************)
C14_InvalidTransitionForEmpty ==
    IsCall =>
        /\ Len(last.to) = 0 => last.err.kind = "ErrInvalidTransition"
        /\ (Len(last.to) > 0 /\ Declared(last.to) /\ EnabledTo(last.pre, last.to) = {}) =>
              /\ last.err.kind # "ErrInvalidTransition"
              /\ last.err.kind = "ErrTransitionNotAllowed"

\* Both cases happened to a workflow: this is the second one, for a target
\* list no transition of the Definition leads to.
C14_Witness ==
    /\ IsCall /\ Len(last.to) > 0 /\ Declared(last.to)
    /\ \A i \in DOMAIN definition.Transitions : definition.Transitions[i].to # last.to
    /\ last.err.kind = "ErrTransitionNotAllowed"

\* The empty target list case.
C14_WitnessEmpty ==
    /\ last.op = "Can" /\ Len(last.to) = 0 /\ last.err.kind = "ErrInvalidTransition"

(***************************************************************************)
(* C15: a step that is a call of Can leaves the marking, the context, the  *)
(* three listener tables and the Manager reference as they were, and the   *)
(* call runs no before_transition and no after_transition listener.        *)
(***************************************************************************)
C15_CanIsPure ==
    [][last'.op = "Can" =>
          /\ marking' = marking
          /\ context' = context
          /\ defListeners' = defListeners
          /\ mgrListeners' = mgrListeners
          /\ listeners' = listeners
          /\ manager' = manager
          /\ definition' = definition
          /\ \A k \in DOMAIN last'.trace :
                last'.trace[k].ev \notin {EventBeforeTransition, EventAfterTransition}]_vars

\* Can returned nil for a move that changes the marking, while the context
\* holds a value and a before_transition or after_transition listener that
\* Apply calls is registered.
C15_Witness ==
    /\ last.op = "Can" /\ last.err = Nil /\ last.matched # 0
    /\ context # NoContext
    /\ Len(DispatchOrder(EventBeforeTransition)) + Len(DispatchOrder(EventAfterTransition)) > 0
    /\ Without(marking, definition.Transitions[last.matched].from) \o last.to # marking

(***************************************************************************)
(* Vocabulary of the properties about the Registry.                        *)
(***************************************************************************)
\* Goroutine p is in a reader method at its access to the map.
MapRead(p) == pc[p] \in {"wf_read", "has_read", "list_range"}

\* Goroutine p is in AddWorkflow or RemoveWorkflow at its write to the map.
MapWrite(p) == pc[p] \in {"add_insert", "rm_delete"}

\* Goroutine p has made every call of its loop and the last has returned.
Returned(p) == pc[p] = "idle" /\ todo[p] = <<>>

Adders == {p \in Procs : role[p] = "adder"}

\* The registry as the concurrent test finds it.
Before == [n \in {BaseName} |-> createTestWorkflow(BaseName, 0)]

(***************************************************************************)
(* C16: a goroutine that accesses the map in Workflow, HasWorkflow or      *)
(* ListWorkflows holds the read lock; no such access happens while another *)
(* goroutine writes the map in AddWorkflow or RemoveWorkflow, and no two   *)
(* goroutines write the map at the same time.                              *)
(***************************************************************************)
C16_ReadsHoldTheLock ==
    /\ \A p \in Procs : MapRead(p) => p \in mu.readers
    /\ \A p, q \in Procs :
          (p # q /\ MapWrite(p)) => (~MapRead(q) /\ ~MapWrite(q))

(***************************************************************************)
(* C17: of the goroutines that add a workflow under the same name at the   *)
(* same time at most one gets nil, and once all have returned exactly one  *)
(* got nil, every other one got the error for a name that exists, and the  *)
(* registry holds the instance the successful call passed.                 *)
(***************************************************************************)
C17_OneAddWins ==
    /\ Cardinality({p \in Adders : ret[p].err = "nil"}) <= 1
    /\ (Adders # {} /\ \A p \in Adders : Returned(p)) =>
          \E w \in Adders :
              /\ ret[w].err = "nil"
              /\ \A p \in Adders \ {w} : ret[p].err = "workflow with name %s already exists"
              /\ SharedName \in DOMAIN workflows
              /\ workflows[SharedName] = [name |-> SharedName, id |-> w]

\* Two goroutines added the same name and both calls have returned.
C17_Witness ==
    /\ Cardinality(Adders) >= 2
    /\ \A p \in Adders : Returned(p)

\* One of them waits in Lock while the other is about to insert.
C17_WitnessContended ==
    \E p, q \in Adders : p # q /\ pc[p] = "add_insert" /\ pc[q] = "add_lock"

(***************************************************************************)
(* C18: the list a ListWorkflows call returns holds, once each, exactly    *)
(* the names registered at the moment it returns, whatever writers do      *)
(* meanwhile; and when the goroutines, none of which leaves a name behind, *)
(* have all returned, the registry is as it was before they started.       *)
(***************************************************************************)
C18_ListIsSnapshot ==
    /\ [][\A p \in Procs :
            (pc[p] = "list_runlock" /\ pc'[p] = "idle") =>
                /\ Range(ret'[p].names) = DOMAIN workflows'
                /\ Len(ret'[p].names) = Cardinality(DOMAIN workflows')]_vars
    /\ []((\A p \in Procs : Returned(p) /\ role[p] \in {"reader", "writer"}) =>
             workflows = Before)

\* A writer has called Lock and waits for a reader that is in the loop of
\* ListWorkflows.
C18_Witness ==
    \E p, q \in Procs :
        /\ pc[p] = "list_range" /\ p \in mu.readers
        /\ pc[q] \in {"add_check", "rm_check"} /\ mu.writer = q

\* A reader and a writer have both run their loops to the end.
C18_WitnessReturned ==
    /\ \A p \in Procs : Returned(p)
    /\ \E p, q \in Procs : role[p] = "reader" /\ role[q] = "writer"

(***************************************************************************)
(* C19: while a call is running some goroutine can take a step, so that no *)
(* call is left waiting for ever, and when no call is running the lock is  *)
(* free.                                                                   *)
(***************************************************************************)
C19_EveryCallReturns ==
    /\ (\E p \in Procs : pc[p] # "idle") => ENABLED NextRegistry
    /\ (\A p \in Procs : pc[p] = "idle") => mu = Unlocked

(***************************************************************************)
(* C20: a call made while no other call runs behaves as the same call on a *)
(* map from name to instance.  AddWorkflow(nil), AddWorkflow of a          *)
(* registered name and RemoveWorkflow of an unregistered name return an    *)
(* error and leave the registry, with the instances in it, as it was; the  *)
(* other AddWorkflow and RemoveWorkflow calls return nil and add or remove *)
(* that one name; HasWorkflow(n) is true, Workflow(n) succeeds and n is in *)
(* the list of ListWorkflows, once, exactly for the registered names, and  *)
(* Workflow(n) returns the instance that was added.                        *)
(***************************************************************************)
C20_RegistryIsAMap ==
    (\A q \in Procs : pc[q] = "idle") =>
        LET c == call[Main]
            r == ret[Main]
            pre == c.pre
            same == workflows = pre
            failed == r.err \notin {"nil", "none"}
        IN  /\ mu = Unlocked
            /\ c.op = "AddWorkflow" =>
                  IF c.wf = NilWorkflow \/ c.wf.name \in DOMAIN pre
                  THEN failed /\ same
                  ELSE /\ r.err = "nil"
                       /\ DOMAIN workflows = DOMAIN pre \cup {c.wf.name}
                       /\ workflows[c.wf.name] = c.wf
                       /\ \A n \in DOMAIN pre : workflows[n] = pre[n]
            /\ c.op = "RemoveWorkflow" =>
                  IF c.name \notin DOMAIN pre
                  THEN failed /\ same
                  ELSE /\ r.err = "nil"
                       /\ DOMAIN workflows = DOMAIN pre \ {c.name}
                       /\ \A n \in DOMAIN workflows : workflows[n] = pre[n]
            /\ c.op = "HasWorkflow" => (r.exists <=> c.name \in DOMAIN pre) /\ same
            /\ c.op = "Workflow" =>
                  /\ same
                  /\ IF c.name \in DOMAIN pre
                     THEN r.err = "nil" /\ r.wf = pre[c.name]
                     ELSE failed /\ r.wf = NilWorkflow
            /\ c.op = "ListWorkflows" =>
                  /\ same
                  /\ Range(r.names) = DOMAIN pre
                  /\ Len(r.names) = Cardinality(DOMAIN pre)

\* A second instance was added under a registered name.
C20_Witness ==
    /\ \A q \in Procs : pc[q] = "idle"
    /\ call[Main].op = "AddWorkflow"
    /\ call[Main].wf.name \in DOMAIN call[Main].pre
    /\ call[Main].pre[call[Main].wf.name] # call[Main].wf

\* Workflow returned one of two registered instances.
C20_WitnessLookup ==
    /\ \A q \in Procs : pc[q] = "idle"
    /\ call[Main].op = "Workflow" /\ ret[Main].err = "nil"
    /\ Cardinality(DOMAIN workflows) = 2

\* ListWorkflows returned two names.
C20_WitnessList ==
    /\ \A q \in Procs : pc[q] = "idle"
    /\ call[Main].op = "ListWorkflows" /\ Len(ret[Main].names) = 2

(***************************************************************************)
(* C21: NewTransition fails iff the name is empty, from is empty, to is    *)
(* empty, from holds a place twice or to holds a place twice; a place that *)
(* is both in from and in to is accepted; the transition it returns has    *)
(* the name, the from places and the to places it was given.               *)
(***************************************************************************)
C21_NewTransitionContract ==
    out.op = "NewTransition" /\ out.returned =>
        /\ out.err # Nil <=>
              \/ out.args[1] = ""
              \/ Len(out.args[2]) = 0
              \/ Len(out.args[3]) = 0
              \/ HasDuplicates(out.args[2])
              \/ HasDuplicates(out.args[3])
        /\ out.err = Nil =>
              /\ out.value.name = out.args[1]
              /\ out.value.from = out.args[2]
              /\ out.value.to = out.args[3]

\* A self-loop was accepted.
C21_Witness ==
    /\ out.op = "NewTransition"
    /\ out.returned
    /\ out.err = Nil
    /\ Range(out.args[2]) \cap Range(out.args[3]) # {}

\* A transition was refused only because to holds a place twice.
C21_WitnessDuplicate ==
    /\ out.op = "NewTransition"
    /\ out.returned
    /\ out.err # Nil
    /\ out.args[1] # ""
    /\ Len(out.args[2]) # 0
    /\ ~HasDuplicates(out.args[2])
    /\ HasDuplicates(out.args[3])

\* The places a transition refers to, in the order of the scan.
Refs(t) == t.from \o t.to

\* The positions in Refs(t) of the places that are not declared.
Undefined(places, t) == {k \in DOMAIN Refs(t) : Refs(t)[k] \notin Range(places)}

Min(S) == CHOOSE x \in S : \A y \in S : x <= y

\* The transitions of the call recorded in out that refer to an undeclared
\* place.
Offending == {i \in DOMAIN out.args[2] : Undefined(out.args[1], out.args[2][i]) # {}}

(***************************************************************************)
(* C22: NewDefinition succeeds iff every from place and every to place of  *)
(* every transition is among the places; when it fails, the error names    *)
(* the first undeclared place of the first transition that has one, from   *)
(* places before to places, and the name of that transition.               *)
(***************************************************************************)
C22_NewDefinitionSchema ==
    out.op = "NewDefinition" /\ out.returned =>
        /\ out.err = Nil <=> Offending = {}
        /\ Offending # {} =>
              out.err.args =
                  << Refs(out.args[2][Min(Offending)])
                         [Min(Undefined(out.args[1], out.args[2][Min(Offending)]))],
                     out.args[2][Min(Offending)].name >>

\* The call failed at the second transition, which refers to more than one
\* undeclared place.
C22_Witness ==
    /\ out.op = "NewDefinition"
    /\ out.returned
    /\ out.err # Nil
    /\ Offending = {2}
    /\ Cardinality(Undefined(out.args[1], out.args[2][2])) > 1

\* A definition was returned for transitions that refer to places.
C22_WitnessAccepted ==
    /\ out.op = "NewDefinition"
    /\ out.returned
    /\ out.err = Nil
    /\ Len(out.args[2]) = 2

(***************************************************************************)
(* C24: no public operation other than MustNewTransition panics; this     *)
(* covers LoadWorkflow when the Storage returns, without an error, an      *)
(* empty list of places.                                                   *)
(***************************************************************************)
C24_OnlyMustPanics == out.panic # Nil => out.op = "MustNewTransition"

(***************************************************************************)
(* C25: a workflow saved with Manager.SaveWorkflow and then loaded with    *)
(* LoadWorkflow through a Registry that does not hold it comes back with   *)
(* the current places, the context entries and the initial place it had    *)
(* when it was saved.                                                      *)
(***************************************************************************)
C25_LoadRestores ==
    (/\ out.op = "LoadWorkflow"
     /\ out.returned
     /\ out.err = Nil
     /\ out.args[2]
     /\ out.args[1].by = "SaveWorkflow")
    => /\ Places(out.value.marking) = out.args[1].places
       /\ out.value.context = out.args[1].context
       /\ out.value.initialPlace = out.args[1].initialPlace

(***************************************************************************)
(* C23: NewWorkflow fails exactly when the name is empty, the definition   *)
(* is nil or the initial place is not declared by the definition; the      *)
(* workflow it returns has the initial place as its only current place and *)
(* as InitialPlace(), and no Apply call changes what InitialPlace()        *)
(* returns.                                                                *)
(***************************************************************************)
C23_Constructed ==
    out.op = "NewWorkflow" =>
        /\ out.err # Nil <=> \/ out.args[1] = ""
                             \/ out.args[2] = NilDefinition
                             \/ out.args[3] \notin Range(definition.Places)
        /\ out.err = Nil => /\ Places(out.value.marking) = <<out.args[3]>>
                            /\ out.value.initialPlace = out.args[3]

C23_NewWorkflowContract ==
    /\ []C23_Constructed
    /\ [][last'.op = "Apply" => initialPlace' = initialPlace]_vars

C23_Witness ==
    /\ out.op = "NewWorkflow"
    /\ out.err = Nil
    /\ initialPlace = out.args[3]
    /\ last.op = "Apply"
    /\ last.err = Nil
    /\ Places(marking) # <<initialPlace>>

C23_WitnessUndeclared ==
    /\ out.op = "NewWorkflow"
    /\ out.args[1] # ""
    /\ out.args[2] # NilDefinition
    /\ out.err # Nil

(***************************************************************************)
(* C27: the text Diagram returns is a function of the Definition and the   *)
(* current marking only: two calls with no state change in between, and    *)
(* calls on two workflows of the same Definition and marking, return the   *)
(* same text; the call changes no workflow state.                          *)
(***************************************************************************)
C27_DefinitionAndMarkingOnly ==
    [][/\ (out.op = "Diagram" /\ out'.op = "Diagram"
           /\ out'.args[1] = out.args[1] /\ out'.args[2] = out.args[2])
          => out'.value = out.value
       /\ (out'.op = "Diagram" /\ (out.op = "Diagram" => out'.args # out.args))
          => UNCHANGED <<workflowVars, initialPlace>>]_vars

\* Amended: a function of the Definition, the current marking and the
\* initial place only.
C27_DefinitionMarkingAndInitialPlace ==
    [][/\ (out.op = "Diagram" /\ out'.op = "Diagram" /\ out'.args = out.args)
          => out'.value = out.value
       /\ (out'.op = "Diagram" /\ (out.op = "Diagram" => out'.args # out.args))
          => UNCHANGED <<workflowVars, initialPlace>>]_vars

\* Diagram has returned the text of two workflows that have the same marking
\* and initial place and differ in their context.
C27_Witness ==
    /\ out.op = "Diagram"
    /\ other # NoWorkflow
    /\ Places(marking) = out.args[2]
    /\ initialPlace = out.args[3]
    /\ Places(other.marking) = out.args[2]
    /\ other.initialPlace = out.args[3]
    /\ other.context # context

(***************************************************************************)
(* C28: the diagram lists every declared place once in Definition order,   *)
(* then for each transition in Definition order a fork node fed from       *)
(* from[0], or from a join node fed by every from place, with an edge to   *)
(* each to place when it has several to places; a join node fed by every   *)
(* from place with an edge to the to place when it has one to place and    *)
(* several from places; the labeled edge from[0] --> to[0] otherwise; then *)
(* one line per current place in marking order and the initial-place arrow.*)
(***************************************************************************)
Fork(t) == <<t.name, "_fork">>

Join(t) == <<t.name, "_join">>

Labeled(edge, t) == edge \o <<" : ", t.name>>

\* The number of lines of transition t.
Size(t) ==
    IF Len(t.to) > 1
    THEN (IF Len(t.from) > 1 THEN Len(t.from) + 3 ELSE 2) + Len(t.to)
    ELSE IF Len(t.from) > 1 THEN Len(t.from) + 2 ELSE 1

\* The number of lines before transition i.
RECURSIVE LinesBefore(_, _)
LinesBefore(def, i) ==
    IF i = 1 THEN 2 + Len(def.Places)
    ELSE LinesBefore(def, i - 1) + Size(def.Transitions[i - 1])

\* Lines o + 1 .. o + Size(t) of text are those of transition t.
Drawn(text, o, t) ==
    IF Len(t.to) > 1 /\ Len(t.from) > 1
    THEN /\ text[o + 1] = <<"    state ">> \o Fork(t) \o <<" <<fork>>">>
         /\ text[o + 2] = <<"    state ">> \o Join(t) \o <<" <<join>>">>
         /\ \A k \in DOMAIN t.from :
               text[o + 2 + k] = Labeled(Arrow(<<t.from[k]>>, Join(t)), t)
         /\ text[o + 3 + Len(t.from)] = Arrow(Join(t), Fork(t))
         /\ \A k \in DOMAIN t.to :
               text[o + 3 + Len(t.from) + k] = Arrow(Fork(t), <<t.to[k]>>)
    ELSE IF Len(t.to) > 1
    THEN /\ text[o + 1] = <<"    state ">> \o Fork(t) \o <<" <<fork>>">>
         /\ text[o + 2] = Labeled(Arrow(<<t.from[1]>>, Fork(t)), t)
         /\ \A k \in DOMAIN t.to : text[o + 2 + k] = Arrow(Fork(t), <<t.to[k]>>)
    ELSE IF Len(t.from) > 1
    THEN /\ text[o + 1] = <<"    state ">> \o Join(t) \o <<" <<join>>">>
         /\ \A k \in DOMAIN t.from :
               text[o + 1 + k] = Labeled(Arrow(<<t.from[k]>>, Join(t)), t)
         /\ text[o + 2 + Len(t.from)] = Arrow(Join(t), <<t.to[1]>>)
    ELSE text[o + 1] = Labeled(Arrow(<<t.from[1]>>, <<t.to[1]>>), t)

\* From line o + 1 on, text marks the current places m and ends with the
\* arrow to place.
Marked(text, o, m, place) ==
    /\ text[o + 1] = <<>>
    /\ text[o + 2] = <<"    %% Current places">>
    /\ \A k \in DOMAIN m : text[o + 2 + k] = <<"    class ", m[k], " currentPlace">>
    /\ text[o + 3 + Len(m)] = <<>>
    /\ text[o + 4 + Len(m)] = <<"    %% Initial place">>
    /\ text[o + 5 + Len(m)] = <<"    [*] --> ", place>>
    /\ Len(text) = o + 5 + Len(m)

C28_DiagramLayout ==
    out.op = "Diagram" =>
        /\ \A i \in DOMAIN out.args[1].Places :
              out.value[2 + i] = <<"    ", out.args[1].Places[i]>>
        /\ \A i \in DOMAIN out.args[1].Transitions :
              Drawn(out.value, LinesBefore(out.args[1], i), out.args[1].Transitions[i])
        /\ Marked(out.value, LinesBefore(out.args[1], Len(out.args[1].Transitions) + 1),
                  out.args[2], out.args[3])

\* The diagram of a Definition with a transition of several from and several
\* to places, for a workflow that has left its initial place.
C28_Witness ==
    /\ out.op = "Diagram"
    /\ \E i \in DOMAIN out.args[1].Transitions :
          /\ Len(out.args[1].Transitions[i].from) > 1
          /\ Len(out.args[1].Transitions[i].to) > 1
    /\ out.args[2][1] # out.args[3]

\* The diagram of a workflow with several current places.
C28_WitnessSeveral ==
    /\ out.op = "Diagram"
    /\ \E i \in DOMAIN out.args[1].Transitions :
          /\ Len(out.args[1].Transitions[i].from) > 1
          /\ Len(out.args[1].Transitions[i].to) = 1
    /\ Len(out.args[2]) > 1

(***************************************************************************)
(* C26: a Workflow has no internal synchronization: no statement of an     *)
(* Apply call waits for another call on the same Workflow, so that two     *)
(* interleaved calls can both pass the guard against the same marking and  *)
(* both return nil, one marked place being consumed twice and the final    *)
(* marking being that of no sequential execution of the two calls.         *)
(***************************************************************************)
C26_NoSynchronization ==
    \A g \in Procs :
        /\ pc[g] = "idle" => ENABLED ApplyCan(g)
        /\ pc[g] = "scan" => ENABLED ApplyScan(g)
        /\ pc[g] = "set" => ENABLED ApplySet(g)

\* The marking a call Apply(to) made alone leaves of marking m.
After(m, to) ==
    ApplyWithContext([Self EXCEPT !.marking = m], to, <<>>, <<>>, <<>>, <<>>).marking

\* Two calls have passed the guard against the initial marking and have
\* returned nil; their transitions have a from place in common, and the
\* marking is not the one either order of the two calls leaves.
C26_Witness ==
    /\ definition = Tangled
    /\ \E g, h \in Procs :
          /\ g # h
          /\ \A k \in Procs \ {g, h} : pc[k] = "idle"
          /\ pc[g] = "done" /\ call[g].err = Nil
          /\ pc[h] = "done" /\ call[h].err = Nil
          /\ call[g].seen = <<initialPlace>>
          /\ call[h].seen = <<initialPlace>>
          /\ Range(definition.Transitions[call[g].sel].from)
                \cap Range(definition.Transitions[call[h].sel].from) # {}
          /\ marking # After(After(<<initialPlace>>, call[g].to), call[h].to)
          /\ marking # After(After(<<initialPlace>>, call[h].to), call[g].to)

\* The same transition has been applied twice to one marked place.
C26_WitnessTwice ==
    /\ definition = Linear
    /\ \E g, h \in Procs :
          /\ g # h
          /\ pc[g] = "done" /\ call[g].err = Nil
          /\ pc[h] = "done" /\ call[h].err = Nil
          /\ call[g].seen = call[h].seen
          /\ call[g].sel = call[h].sel
          /\ call[g].sel # 0

(***************************************************************************)
(* C30: every listener registered for the type of an event, on the         *)
(* Definition, the attached Manager or the Workflow, through               *)
(* AddEventListener or AddGuardEventListener, is invoked exactly once for  *)
(* the event when no listener before it returned an error; a listener      *)
(* registered with AddEventListener(EventGuard, l) is one of them.         *)
(***************************************************************************)
\* The listeners of a table registered for ev, as log sources.
Sources(tbl, tier, ev) == [i \in DOMAIN tbl[ev] |-> [ev |-> ev, tier |-> tier, idx |-> i]]

RegisteredOrder(ev) ==
    Sources(defListeners, "definition", ev)
    \o (IF manager = "nil" THEN <<>> ELSE Sources(mgrListeners, "manager", ev))
    \o Sources(listeners, "workflow", ev)

C30_EveryRegisteredListenerRuns ==
    /\ (IsCall /\ last.err = Nil) => RanOrder(EventGuard) = RegisteredOrder(EventGuard)
    /\ (last.op = "Apply" /\ last.err = Nil) =>
          \A ev \in EventTypes : RanOrder(ev) = RegisteredOrder(ev)

(***************************************************************************)
(* C29: a listener registered on a Definition is invoked for the events of *)
(* every Workflow bound to the Definition, also of one created before the  *)
(* listener was registered; a listener registered on a Workflow is invoked *)
(* for the events of that Workflow only.                                   *)
(***************************************************************************)
\* The listeners of one tier that ran for ev, in the order they ran.
RanOf(tier, ev) == SelectSeq(RanOrder(ev), LAMBDA e : e.tier = tier)

C29_DefinitionSharedInstanceOwn ==
    (last.op = "Apply" /\ last.err = Nil) =>
        \A ev \in EventTypes :
            /\ RanOf("definition", ev) = Callable(defListeners, "definition", ev)
            /\ RanOf("workflow", ev) = Callable(listeners, "workflow", ev)

\* A transition of a workflow without listeners, created before the
\* Definition got its listener, has been applied: the listener of the
\* Definition ran and the listener of the other workflow did not.
C29_Witness ==
    /\ last.op = "Apply"
    /\ last.err = Nil
    /\ other # NoWorkflow
    /\ \E ev \in EventTypes :
          /\ Len(RanOf("definition", ev)) > 0
          /\ Len(Callable(other.listeners, "workflow", ev)) > 0
          /\ listeners[ev] = <<>>
          /\ RanOf("workflow", ev) = <<>>

(***************************************************************************)
(* C31: after RemoveEventListener(eventType, l) on a Workflow, a           *)
(* Definition or a Manager that holds l for eventType, l is not invoked    *)
(* for later events of that type and the other listeners registered there  *)
(* are still invoked in their original order.                              *)
(***************************************************************************)
\* The list ls without its element at position k.
RemoveAt(ls, k) == SubSeq(ls, 1, k - 1) \o SubSeq(ls, k + 1, Len(ls))

\* The last registration call was the removal out records, and a
\* transition has been applied since.
AppliedAfterRemoval ==
    /\ out.op = "RemoveEventListener"
    /\ last.op = "Apply"
    /\ last.err = Nil
    /\ out.args[1] = "manager" => manager # "nil"
    /\ TableOf(out.args[1])[out.args[2]]
          \in {out.value, RemoveAt(out.value, out.args[3])}

C31_RemovedListenerNotInvoked ==
    AppliedAfterRemoval =>
        RanOf(out.args[1], out.args[2])
          = Callable([ev \in EventTypes |-> RemoveAt(out.value, out.args[3])],
                     out.args[1], out.args[2])

(***************************************************************************)
(* C32: after every Manager.CreateWorkflow call that returns without an    *)
(* error the Registry maps the id to the workflow instance the call        *)
(* returned and the Storage holds the initial state of that instance,      *)
(* whatever the state of the Manager was, also when the id was registered. *)
(***************************************************************************)
C32_CreatedIsRegisteredAndStored ==
    (out.op = "CreateWorkflow" /\ out.err = Nil) =>
        /\ Lookup(workflows, BaseName).ok
        /\ Lookup(workflows, BaseName).wf = out.value.instance
        /\ storage.by = "CreateWorkflow" =>
              /\ storage.places = <<out.args[3]>>
              /\ storage.context = NoContext

\* The places a program asks HasPlace about.
PlaceNames == UNION {Range(d.Places) : d \in Definitions} \cup {Modified}

\* What Places, HasPlace, EnabledTransitions and Can report of the workflow.
Observed ==
    [Places |-> Places(marking),
     HasPlace |-> {place \in PlaceNames : HasPlace(marking, place)},
     EnabledTransitions |-> EnabledTransitions(Self),
     Can |-> [to \in Targets(definition) |->
                 {CanWithContext(Self, to, cb, <<>>).err : cb \in AnswersFor(Self, to)}]]

\* C33: a write into a slice that Places or CurrentPlaces returned changes
\* nothing of what Places, HasPlace, EnabledTransitions and Can report, and
\* a write into a slice that was passed to NewMarking or SetPlaces changes
\* nothing of what Places and HasPlace report of that marking.
C33_ReturnedSlicesAreCopies ==
    [][heap'.op = "StorePlace" =>
          /\ "Places" \in heap.from => Observed' = Observed
          /\ heap.from \cap {"SetPlaces", "NewMarking"} # {} =>
                /\ Observed'.Places = Observed.Places
                /\ Observed'.HasPlace = Observed.HasPlace]_vars

\* The program has written into the slice Places returned, which no longer
\* holds what the marking holds.
C33_Witness ==
    /\ heap.op = "StorePlace"
    /\ "Places" \in heap.from
    /\ heap.arrays[heap.places][1] = Modified
    /\ Places(marking)[1] # Modified
    /\ EnabledTransitions(Self) # <<>>

\* The program has written into the slice it passed to SetPlaces.
C33_WitnessArgument ==
    /\ heap.op = "StorePlace"
    /\ "SetPlaces" \in heap.from
    /\ heap.arrays[heap.places][1] = Modified
    /\ Places(marking)[1] # Modified

\* Every transition of the Definition leads from declared places to
\* declared places.
Closed(def) ==
    \A i \in DOMAIN def.Transitions :
        /\ \A k \in DOMAIN def.Transitions[i].from : Place(def, def.Transitions[i].from[k])
        /\ \A k \in DOMAIN def.Transitions[i].to : Place(def, def.Transitions[i].to[k])

\* C34: once NewDefinition has succeeded, every transition of the
\* Definition leads from declared places to declared places in every later
\* state, and no write of the program into a slice it passed to
\* NewDefinition or got from AllPlaces or AllTransitions, and no other
\* operation, changes the places or the transitions of the Definition.
C34_DefinitionImmutable ==
    [][/\ Closed(definition')
       /\ definition'.Places = definition.Places
       /\ definition'.Transitions = definition.Transitions]_vars

\* A write into a slice that AllPlaces returned leaves the Definition alone.
C34_CopiesAreSafe ==
    [][(heap'.op = "StorePlace" /\ heap.from = {"AllPlaces"}) =>
          definition' = definition]_vars

\* No callback of the last call returned an error or set the blocking flag.
Unopposed == \A k \in DOMAIN last.trace : ~last.trace[k].fails /\ last.trace[k].block = "none"

\* C35: in the fork and merge workflow, Apply of the two branches at start
\* and then Apply of end succeed when no callback objects, and leave the
\* workflow at end alone; a successful Apply of a transition with several
\* from places leaves none of them marked, and when they were all the
\* marked places it leaves the target places alone.
C35_ForkAndMerge ==
    last.op = "Apply" =>
        /\ (definition = ForkJoin /\ Unopposed /\ last.pre = <<"start">>
                /\ last.to = <<"a", "b">>) =>
              (last.err = Nil /\ Places(marking) = <<"a", "b">>)
        /\ (definition = ForkJoin /\ Unopposed /\ last.pre = <<"a", "b">>
                /\ last.to = <<"end">>) =>
              (last.err = Nil /\ Places(marking) = <<"end">>)
        /\ (last.err = Nil /\ last.sel # 0
                /\ Len(definition.Transitions[last.sel].from) > 1) =>
              /\ \A place \in Range(definition.Transitions[last.sel].from) \ Range(last.to) :
                    ~HasPlace(Places(marking), place)
              /\ Range(last.pre) = Range(definition.Transitions[last.sel].from) =>
                    Places(marking) = last.to

\* The merge has been applied at the two branches and the workflow is at
\* end.
C35_Witness ==
    /\ last.op = "Apply" /\ last.err = Nil
    /\ definition = ForkJoin
    /\ last.pre = <<"a", "b">>
    /\ definition.Transitions[last.sel].name = "merge"
    /\ Places(marking) = <<"end">>

\* The callbacks of the guard check that ran: constraints and guard
\* listeners.
RanGuardPhase == Ran("constraint") \cup Ran(EventGuard)

\* The blocking flag of the guard event after its listeners ran: the last
\* listener that set it decides.
BlockingAtEnd ==
    \E k \in Ran(EventGuard) :
        /\ last.trace[k].block = "true"
        /\ \A j \in Ran(EventGuard) : j > k => last.trace[j].block = "none"

\* The guard check of the last call succeeded.
GuardPhaseSucceeded ==
    /\ last.matched # 0
    /\ \A k \in RanGuardPhase : ~last.trace[k].fails
    /\ Cardinality(Ran("constraint")) = Len(definition.Transitions[last.matched].constraints)
    /\ RanOrder(EventGuard) = DispatchOrder(EventGuard)
    /\ ~BlockingAtEnd

\* C36: a successful Apply runs the constraints and the guard listeners,
\* then the before_transition listeners, which see the old marking, then
\* sets the marking, then runs the after_transition listeners, which see
\* the new marking; every listener of each phase runs once; and in no
\* Apply a before_transition listener runs unless the guard check
\* succeeded.
C36_PhasesInOrder ==
    last.op = "Apply" =>
        /\ Ran(EventBeforeTransition) # {} => GuardPhaseSucceeded
        /\ last.err = Nil =>
              /\ GuardPhaseSucceeded
              /\ \A ev \in EventTypes : RanOrder(ev) = DispatchOrder(ev)
              /\ \A g \in RanGuardPhase, b \in Ran(EventBeforeTransition) : g < b
              /\ \A b \in Ran(EventBeforeTransition), a \in Ran(EventAfterTransition) : b < a
              /\ \A g \in RanGuardPhase : last.trace[g].seen = last.pre
              /\ \A b \in Ran(EventBeforeTransition) : last.trace[b].seen = last.pre
              /\ \A a \in Ran(EventAfterTransition) :
                    /\ last.trace[a].seen = Places(marking)
                    /\ last.trace[a].seen =
                          Without(last.pre, definition.Transitions[last.sel].from) \o last.to

\* A successful Apply moved the marking and ran a before_transition and an
\* after_transition listener.
C36_Witness ==
    /\ last.op = "Apply" /\ last.err = Nil
    /\ Ran(EventBeforeTransition) # {}
    /\ Ran(EventAfterTransition) # {}
    /\ Places(marking) # last.pre

\* A successful Apply ran a constraint, a guard listener and a
\* before_transition listener.
C36_WitnessGuard ==
    /\ last.op = "Apply" /\ last.err = Nil
    /\ Ran("constraint") # {}
    /\ Ran(EventGuard) # {}
    /\ Ran(EventBeforeTransition) # {}

\* The event the listener of log entry k received carries the from places
\* of the selected transition and the requested target places.
CarriesSelected(k) ==
    /\ last.trace[k].from = definition.Transitions[last.sel].from
    /\ last.trace[k].to = last.to

\* C37: the guard event, the before_transition event and the
\* after_transition event of one Apply carry the same payload: From() is
\* the from places of the selected transition and To() is the requested
\* target places.
C37_SamePayload ==
    (last.op = "Apply" /\ last.sel # 0) =>
        \A k \in DOMAIN last.trace : last.trace[k].ev \in EventTypes => CarriesSelected(k)

\* The before_transition and after_transition events carry that payload.
C37_BeforeAndAfterPayload ==
    (last.op = "Apply" /\ last.sel # 0) =>
        \A k \in Ran(EventBeforeTransition) \cup Ran(EventAfterTransition) : CarriesSelected(k)

\* C38: in every Apply the transition the guard check evaluated is the
\* first transition in Definition order that is enabled and leads to the
\* target places; the transition whose from places are removed and which
\* the before_transition and after_transition events carry is that same
\* transition; and when the guard check rejects it nothing is selected or
\* applied, whatever other transitions lead to the target places.
C38_SameTransitionBothPhases ==
    last.op = "Apply" =>
        /\ last.matched # 0 =>
              /\ last.matched \in EnabledTo(last.pre, last.to)
              /\ \A i \in EnabledTo(last.pre, last.to) : last.matched <= i
              /\ Cardinality(Ran("constraint"))
                    <= Len(definition.Transitions[last.matched].constraints)
        /\ last.sel # 0 =>
              /\ last.sel = last.matched
              /\ \A k \in Ran(EventBeforeTransition) \cup Ran(EventAfterTransition) :
                    last.trace[k].from = definition.Transitions[last.matched].from
              /\ Ran(EventAfterTransition) # {} =>
                    Places(marking) =
                       Without(last.pre, definition.Transitions[last.matched].from)
                          \o last.to
        /\ (last.matched # 0 /\ ~GuardPhaseSucceeded) =>
              /\ last.err # Nil
              /\ last.sel = 0
              /\ Places(marking) = last.pre
              /\ Ran(EventBeforeTransition) \cup Ran(EventAfterTransition) = {}

\* The first of two enabled transitions to the target places was rejected
\* by its constraint.
C38_Witness ==
    /\ last.op = "Apply"
    /\ Cardinality(EnabledTo(last.pre, last.to)) > 1
    /\ last.matched # 0
    /\ \E k \in Ran("constraint") : last.trace[k].fails
    /\ \E i \in EnabledTo(last.pre, last.to) :
          i > last.matched /\ definition.Transitions[i].constraints = <<>>

\* The first of two enabled transitions to the target places was applied.
C38_WitnessApplied ==
    /\ last.op = "Apply" /\ last.err = Nil
    /\ Cardinality(EnabledTo(last.pre, last.to)) > 1
    /\ Ran(EventBeforeTransition) # {}

\* C39: in every state reachable from NewWorkflow by calls of Can and
\* Apply, successful or failed, the marking holds at least one place and
\* every place it holds is declared in the Definition.
C39_MarkingNonEmptyAndDeclared ==
    /\ Len(Places(marking)) > 0
    /\ \A k \in DOMAIN Places(marking) : Place(definition, Places(marking)[k])

\* A successful Apply removed every place that was marked.
C39_Witness ==
    /\ last.op = "Apply" /\ last.err = Nil /\ last.sel # 0
    /\ Range(last.pre) \subseteq Range(definition.Transitions[last.sel].from)
    /\ Places(marking) = last.to

\* An Apply failed.
C39_WitnessFailed ==
    /\ last.op = "Apply" /\ last.err # Nil
    /\ last.to # <<>>

\* C40: whenever the guard check inside Apply succeeds, the re-scan of the
\* Definition selects a transition, so that Apply returns
\* ErrInvalidTransition for the empty target list only.
C40_RescanAlwaysFinds ==
    last.op = "Apply" =>
        /\ GuardPhaseSucceeded => last.sel # 0
        /\ last.err = ErrInvalidTransition => (Len(last.to) = 0 /\ last.matched = 0)

\* The guard check succeeded for a transition whose from places are marked
\* in another order, and the re-scan selected it.
C40_Witness ==
    /\ last.op = "Apply"
    /\ GuardPhaseSucceeded
    /\ last.sel # 0
    /\ Len(last.pre) > 1
    /\ last.pre # definition.Transitions[last.sel].from
    /\ Range(last.pre) = Range(definition.Transitions[last.sel].from)

\* Apply of the empty target list returned ErrInvalidTransition.
C40_WitnessEmpty ==
    /\ last.op = "Apply"
    /\ last.err = ErrInvalidTransition
    /\ Len(last.to) = 0

====
